---- MODULE Spec2Model ----
(***************************************************************************)
(* blazediff: two-pass block-based perceptual image diff.                  *)
(*                                                                         *)
(* The model follows one call of diff() in the native crate                *)
(* (src/rust/src/diff.rs, specification Spec) and in the packaged binary   *)
(* crate (src/packages/bin/rust/src/diff.rs, specification SpecBin).       *)
(*                                                                         *)
(* Numbers.  A pixel is the tuple <<r, g, b, a>> of its four bytes (the    *)
(* u32 of the source, byte 0 = r).  The f32/f64 arithmetic of the source   *)
(* is carried out in fixed point: channel differences are kept multiplied  *)
(* by 255 (so the alpha blend needs no division), the YIQ coefficients are *)
(* taken to four decimals, Y/I/Q are kept in 1/16 units and a delta is an  *)
(* integer number of 1/16000 units.  Division truncates toward zero, which *)
(* keeps delta(a, b) and delta(b, a) of equal magnitude, as IEEE rounding  *)
(* does.  Thresholds and the background opacity are given in percent.      *)
(***************************************************************************)
EXTENDS Integers, Sequences, FiniteSets, TLC

\* ------------------------------------------------------------------ bounds

MaxWidth == 9      \* width of the one-row image (two blocks in x)
MaxHeight == 3     \* height of the image with interior pixels (3x3 windows)
MaxRun == 2        \* greatest length of the run of pixels in which image2 differs

\* --------------------------------------------------------------- constants

MAX_YIQ_DELTA == 35215
BlockMin == 8
BlockMax == 128
Lane8 == 8
Lane4 == 4

Abs(n) == IF n < 0 THEN -n ELSE n

Min(a, b) == IF a < b THEN a ELSE b

Max(a, b) == IF a > b THEN a ELSE b

\* Division rounding toward zero.
TruncDiv(n, d) == IF n >= 0 THEN n \div d ELSE -((-n) \div d)

\* ------------------------------------------------------------------ pixels

White == <<255, 255, 255, 255>>
Slate == <<122, 122, 122, 255>>
Gray == <<128, 128, 128, 255>>
Clear == <<122, 122, 122, 0>>
Veil == <<0, 0, 0, 128>>
Stale == <<7, 7, 7, 7>>
Transparent == <<0, 0, 0, 0>>

\* DiffOptions::default() marker colours.
AaColor == <<255, 255, 0>>
DiffColor == <<255, 0, 0>>
DiffColorAlt == <<0, 255, 0>>

\* pack_color_pixel: an RGB marker with alpha 255.
pack_color_pixel(color) == <<color[1], color[2], color[3], 255>>

\* pack_gray_pixel: gray replicated in r, g, b with alpha 255.
pack_gray_pixel(gray) == <<gray, gray, gray, 255>>

\* The threshold read as a similarity: 35215 * (1 - threshold)^2.
threshold_to_max_delta_Similarity(threshold) ==
    ((MAX_YIQ_DELTA * (100 - threshold) * (100 - threshold)) \div 5) * 8

\* threshold_to_max_delta: 35215 * threshold^2, threshold in percent, result
\* in delta units.
threshold_to_max_delta(threshold) ==
    ((MAX_YIQ_DELTA * threshold * threshold) \div 5) * 8

\* The weighted YIQ magnitude for channel differences given times 255.
\* YIQ_Y/I/Q and YIQ_WEIGHTS of the source; the sign is carried by Y.
YiqY(dr, dg, db) == dr * 2989 + dg * 5866 + db * 1145

YiqI(dr, dg, db) == dr * 5960 - dg * 2742 - db * 3218

YiqQ(dr, dg, db) == dr * 2115 - dg * 5226 + db * 3111

YiqMagnitude(dr, dg, db) ==
    LET y == TruncDiv(YiqY(dr, dg, db), 159375)
        i == TruncDiv(YiqI(dr, dg, db), 159375)
        q == TruncDiv(YiqQ(dr, dg, db), 159375)
    IN ((y * y) \div 16) * 505 + ((i * i) \div 16) * 299 + ((q * q) \div 16) * 196

\* 255 times the channel c blended over white with alpha a.
BlendWhite(c, a) == 255 * 255 + (c - 255) * a

\* color_delta_f32: signed, alpha-aware YIQ delta of two pixels.
color_delta_f32(pa, pb) ==
    IF pa = pb THEN 0
    ELSE LET opaque == pa[4] >= 255 /\ pb[4] >= 255
             dr == IF opaque THEN 255 * (pa[1] - pb[1])
                   ELSE BlendWhite(pa[1], pa[4]) - BlendWhite(pb[1], pb[4])
             dg == IF opaque THEN 255 * (pa[2] - pb[2])
                   ELSE BlendWhite(pa[2], pa[4]) - BlendWhite(pb[2], pb[4])
             db == IF opaque THEN 255 * (pa[3] - pb[3])
                   ELSE BlendWhite(pa[3], pa[4]) - BlendWhite(pb[3], pb[4])
             delta == YiqMagnitude(dr, dg, db)
         IN IF YiqY(dr, dg, db) > 0 THEN -delta ELSE delta

\* yiq_delta_4_sse_direct / yiq_delta_8_avx2_direct of the native crate: the
\* cold-pass lane delta, blended over white, without sign.
yiq_delta_direct(pa, pb) ==
    YiqMagnitude(BlendWhite(pa[1], pa[4]) - BlendWhite(pb[1], pb[4]),
                 BlendWhite(pa[2], pa[4]) - BlendWhite(pb[2], pb[4]),
                 BlendWhite(pa[3], pa[4]) - BlendWhite(pb[3], pb[4]))

\* yiq_delta_4_sse_direct / yiq_delta_8_avx2_direct of the binary crate: the
\* lane delta on r, g, b alone; the alpha byte is never read.
yiq_delta_direct_bin(pa, pb) ==
    YiqMagnitude(255 * (pa[1] - pb[1]), 255 * (pa[2] - pb[2]), 255 * (pa[3] - pb[3]))

\* color_delta(.., y_only = true): the luminance difference used by the AA
\* classifier; pixels that are not opaque are blended over a checkerboard
\* that depends on the pixel index.
color_delta_y(pa, pb, pixel_index) ==
    LET da == pa[4] - pb[4]
        rb == 48 + 159 * (pixel_index % 2)
        gb == 48 + 159 * (((pixel_index * 1000000) \div 1618034) % 2)
        bb == 48 + 159 * (((pixel_index * 1000000) \div 2618034) % 2)
        blend == pa[4] < 255 \/ pb[4] < 255
        dr == IF blend THEN pa[1] * pa[4] - pb[1] * pb[4] - rb * da
              ELSE 255 * (pa[1] - pb[1])
        dg == IF blend THEN pa[2] * pa[4] - pb[2] * pb[4] - gb * da
              ELSE 255 * (pa[2] - pb[2])
        db == IF blend THEN pa[3] * pa[4] - pb[3] * pb[4] - bb * da
              ELSE 255 * (pa[3] - pb[3])
    IN IF pa = pb THEN 0 ELSE YiqY(dr, dg, db)

\* 2550000 times the desaturated value 255 + (Y - 255) * alpha * a / 255,
\* alpha in percent.
GrayValue(pixel, alpha) ==
    LET luminance == (2989 * pixel[1] + 5866 * pixel[2] + 1145 * pixel[3]) \div 100
    IN 255 * 2550000 + (luminance - 25500) * alpha * pixel[4]

\* compute_gray_pixel_f32: clamp to [0, 255], then `as u8` (truncation).
compute_gray_pixel_f32(pixel, alpha) ==
    Min(255, Max(0, GrayValue(pixel, alpha)) \div 2550000)

\* compute_gray_8_avx2 / compute_gray_4_sse: clamp, then cvtps_epi32, which
\* rounds to the nearest integer, ties to even.
compute_gray_simd(pixel, alpha) ==
    LET v == Max(0, GrayValue(pixel, alpha))
        q == v \div 2550000
        r == v % 2550000
        n == IF 2 * r > 2550000 THEN q + 1
             ELSE IF 2 * r = 2550000 THEN q + (q % 2)
             ELSE q
    IN Min(255, n)

\* ------------------------------------------------------------------ images

\* Image: width, height and the pixels in row-major order (as_u32).
Image(w, h, data) == [width |-> w, height |-> h, data |-> data]

\* a32[pixel_index], the source's 0-based indexing.
At(data, pixel_index) == data[pixel_index + 1]

\* The in-bounds 3x3 window around (x, y) without the centre, in the order of
\* `for ny in y0..=y1 { for nx in x0..=x1 {..} }`.
Window(x, y, width, height) ==
    LET x0 == Max(x - 1, 0)
        y0 == Max(y - 1, 0)
        x1 == Min(x + 1, width - 1)
        y1 == Min(y + 1, height - 1)
        cols == x1 - x0 + 1
        all == [k \in 1..(cols * (y1 - y0 + 1)) |->
                   <<x0 + ((k - 1) % cols), y0 + ((k - 1) \div cols)>>]
    IN SelectSeq(all, LAMBDA c : c # <<x, y>>)

\* Number of window pixels equal to the centre.
RECURSIVE CountEqual(_, _, _, _, _)
CountEqual(data, width, val, win, k) ==
    IF k > Len(win) THEN 0
    ELSE (IF At(data, win[k][2] * width + win[k][1]) = val THEN 1 ELSE 0)
         + CountEqual(data, width, val, win, k + 1)

\* has_many_siblings_scalar: bounds-checked count seeded with initial_count.
has_many_siblings_scalar(data, x, y, width, height, initial_count) ==
    initial_count
      + CountEqual(data, width, At(data, y * width + x),
                   Window(x, y, width, height), 1) > 2

\* has_many_siblings_sse / _neon: interior pixels; three lanes of the row
\* above, left, right, three lanes of the row below.
has_many_siblings_simd(data, x, y, width) ==
    LET pos == y * width + x
        val == At(data, pos)
        idx == <<pos - width - 1, pos - width, pos - width + 1,
                 pos - 1, pos + 1,
                 pos + width - 1, pos + width, pos + width + 1>>
    IN Cardinality({k \in 1..8 : At(data, idx[k]) = val}) > 2

\* has_many_siblings: boundary pixels get one implicit match.
has_many_siblings(data, x, y, width, height) ==
    IF x = 0 \/ x = width - 1 \/ y = 0 \/ y = height - 1
    THEN has_many_siblings_scalar(data, x, y, width, height, 1)
    ELSE has_many_siblings_simd(data, x, y, width)

\* The loop of is_antialiased over the window: st.stop is the early
\* `return false` on the third equal sibling.
RECURSIVE AaScan(_, _, _, _, _, _)
AaScan(st, data, width, pos, win, k) ==
    IF k > Len(win) \/ st.stop THEN st
    ELSE LET adj == At(data, win[k][2] * width + win[k][1])
             centre == At(data, pos)
             delta == color_delta_y(centre, adj, pos)
             next ==
               IF adj = centre
               THEN [st EXCEPT !.zeroes = st.zeroes + 1,
                               !.stop = st.zeroes + 1 > 2]
               ELSE IF delta < st.min_delta
               THEN [st EXCEPT !.min_delta = delta, !.min = win[k]]
               ELSE IF delta > st.max_delta
               THEN [st EXCEPT !.max_delta = delta, !.max = win[k]]
               ELSE st
         IN AaScan(next, data, width, pos, win, k + 1)

\* The pixel indices has_many_siblings_scalar may read: the centre and its
\* in-bounds 3x3 window.
has_many_siblings_scalar_reads(x, y, width, height) ==
    {y * width + x}
      \cup {Window(x, y, width, height)[k][2] * width + Window(x, y, width, height)[k][1] :
               k \in DOMAIN Window(x, y, width, height)}

\* The pixel indices has_many_siblings_sse / has_many_siblings_neon read: the
\* centre, left and right, and the four lanes of the two vector loads that
\* start at column x - 1 of the row above and of the row below.
has_many_siblings_simd_reads(x, y, width) ==
    LET pos == y * width + x
    IN {pos, pos - 1, pos + 1}
         \cup {(pos - width) - 1 + lane : lane \in 0..(Lane4 - 1)}
         \cup {(pos + width) - 1 + lane : lane \in 0..(Lane4 - 1)}

\* The pixel indices a call of has_many_siblings reads: boundary pixels take
\* the scalar helper, interior pixels the vector helper when the CPU has
\* SSE4.1 (or NEON) and the scalar helper otherwise.
has_many_siblings_reads(x, y, width, height, cpu) ==
    IF x = 0 \/ x = width - 1 \/ y = 0 \/ y = height - 1
    THEN has_many_siblings_scalar_reads(x, y, width, height)
    ELSE IF cpu = "scalar"
    THEN has_many_siblings_scalar_reads(x, y, width, height)
    ELSE has_many_siblings_simd_reads(x, y, width)

\* The state of is_antialiased after its loop over the window.
is_antialiased_scan(image, x, y) ==
    LET width == image.width
        height == image.height
        x0 == Max(x - 1, 0)
        y0 == Max(y - 1, 0)
        x1 == Min(x + 1, width - 1)
        y1 == Min(y + 1, height - 1)
        init == [zeroes |-> IF x = x0 \/ x = x1 \/ y = y0 \/ y = y1 THEN 1 ELSE 0,
                 min_delta |-> 0, max_delta |-> 0,
                 min |-> <<0, 0>>, max |-> <<0, 0>>, stop |-> FALSE]
    IN AaScan(init, image.data, width, y * width + x, Window(x, y, width, height), 1)

\* The pixel indices a call is_antialiased(image1, image2, x, y) reads, in
\* either buffer: its own window, then those of has_many_siblings at the
\* darkest sibling and, when `||` does not short-circuit, at the brightest.
is_antialiased_reads(image1, image2, x, y, cpu) ==
    LET width == image1.width
        height == image1.height
        st == is_antialiased_scan(image1, x, y)
        own == has_many_siblings_scalar_reads(x, y, width, height)
        at_min == has_many_siblings_reads(st.min[1], st.min[2], width, height, cpu)
        at_max == has_many_siblings_reads(st.max[1], st.max[2], width, height, cpu)
    IN IF st.stop \/ st.min_delta = 0 \/ st.max_delta = 0 THEN own
       ELSE IF /\ has_many_siblings(image1.data, st.min[1], st.min[2], width, height)
               /\ has_many_siblings(image2.data, st.min[1], st.min[2], width, height)
       THEN own \cup at_min
       ELSE own \cup at_min \cup at_max

\* is_antialiased with the `min_delta == 0.0 || max_delta == 0.0` test
\* answering true.
is_antialiased_FlatIsAa(image1, image2, x, y) ==
    LET width == image1.width
        height == image1.height
        x0 == Max(x - 1, 0)
        y0 == Max(y - 1, 0)
        x1 == Min(x + 1, width - 1)
        y1 == Min(y + 1, height - 1)
        init == [zeroes |-> IF x = x0 \/ x = x1 \/ y = y0 \/ y = y1 THEN 1 ELSE 0,
                 min_delta |-> 0, max_delta |-> 0,
                 min |-> <<0, 0>>, max |-> <<0, 0>>, stop |-> FALSE]
        st == AaScan(init, image1.data, width, y * width + x,
                     Window(x, y, width, height), 1)
    IN IF st.stop THEN FALSE
       ELSE IF st.min_delta = 0 \/ st.max_delta = 0 THEN TRUE
       ELSE \/ /\ has_many_siblings(image1.data, st.min[1], st.min[2], width, height)
               /\ has_many_siblings(image2.data, st.min[1], st.min[2], width, height)
            \/ /\ has_many_siblings(image1.data, st.max[1], st.max[2], width, height)
               /\ has_many_siblings(image2.data, st.max[1], st.max[2], width, height)

\* is_antialiased(image1, image2, x, y).
is_antialiased(image1, image2, x, y) ==
    LET width == image1.width
        height == image1.height
        x0 == Max(x - 1, 0)
        y0 == Max(y - 1, 0)
        x1 == Min(x + 1, width - 1)
        y1 == Min(y + 1, height - 1)
        init == [zeroes |-> IF x = x0 \/ x = x1 \/ y = y0 \/ y = y1 THEN 1 ELSE 0,
                 min_delta |-> 0, max_delta |-> 0,
                 min |-> <<0, 0>>, max |-> <<0, 0>>, stop |-> FALSE]
        st == AaScan(init, image1.data, width, y * width + x,
                     Window(x, y, width, height), 1)
    IN IF st.stop THEN FALSE
       ELSE IF st.min_delta = 0 \/ st.max_delta = 0 THEN FALSE
       ELSE \/ /\ has_many_siblings(image1.data, st.min[1], st.min[2], width, height)
               /\ has_many_siblings(image2.data, st.min[1], st.min[2], width, height)
            \/ /\ has_many_siblings(image1.data, st.max[1], st.max[2], width, height)
               /\ has_many_siblings(image2.data, st.max[1], st.max[2], width, height)

\* ------------------------------------------------------------- block grid

RECURSIVE Pow16(_)
Pow16(k) == IF k = 0 THEN 1 ELSE 16 * Pow16(k - 1)

\* The least area whose raw size r = 16 * sqrt(sqrt(area) / 100) has
\* round(log2 r) > k.  round(log2 r) <= k exactly when r^4 < 2^(4k+2), with
\* r^4 = 65536 * area / 10000, that is 1024 * area < 625 * 16^k; from k = 3
\* on the limit is the integer 2500 * 16^(k-3).
RoundLimit(k) ==
    IF k < 3 THEN (625 * Pow16(k) + 1023) \div 1024 ELSE 2500 * Pow16(k - 3)

\* log2_val.round() as u32 for an area below 2^31 (at most 8; a negative
\* logarithm casts to 0).
RoundLog2(area) ==
    CHOOSE j \in 0..8 :
        /\ j = 8 \/ area < RoundLimit(j)
        /\ j = 0 \/ area >= RoundLimit(j - 1)

\* calculate_block_size: (1 << round(log2 r)).clamp(8, 128), the area taken
\* in f64.
calculate_block_size(width, height) ==
    Min(BlockMax, Max(BlockMin, 2 ^ RoundLog2(width * height)))

\* calculate_optimal_block_size of the wasm build: the exponent is clamped
\* to [3, 8], 1 << (round(log2 r)).max(3).min(8).
calculate_optimal_block_size(width, height) ==
    2 ^ Min(8, Max(3, RoundLog2(width * height)))

\* blocks_x rounded down: a partial last column of blocks is left out.
BlocksX_Floor(width, height) ==
    Max(1, width \div calculate_block_size(width, height))

BlocksX(width, height) ==
    (width + calculate_block_size(width, height) - 1)
        \div calculate_block_size(width, height)

BlocksY(width, height) ==
    (height + calculate_block_size(width, height) - 1)
        \div calculate_block_size(width, height)

\* (start_x, start_y, end_x, end_y) of block (bx, by).
BlockBounds(bx, by, width, height) ==
    LET block_size == calculate_block_size(width, height)
        start_x == bx * block_size
        start_y == by * block_size
    IN <<start_x, start_y,
         Min(start_x + block_size, width), Min(start_y + block_size, height)>>

\* The pixels (x, y) of a block in the order of the row and column loops.
BlockPixels(blk) ==
    LET row_width == blk[3] - blk[1]
    IN [k \in 1..(row_width * (blk[4] - blk[2])) |->
           <<blk[1] + ((k - 1) % row_width), blk[2] + ((k - 1) \div row_width)>>]

\* A row whose scalar remainder is left out.
Segment_NoTail(offset, row_width, features) ==
    LET end8 == IF features = "avx2" THEN Lane8 * (row_width \div Lane8) ELSE 0
        end4 == IF features \in {"avx2", "sse41"}
                THEN end8 + Lane4 * ((row_width - end8) \div Lane4) ELSE end8
    IN IF offset < end8 THEN <<Lane8 * (offset \div Lane8), Lane8, "lane8">>
       ELSE IF offset < end4
       THEN <<end8 + Lane4 * ((offset - end8) \div Lane4), Lane4, "lane4">>
       ELSE <<end4, 0, "scalar">>

\* The segment of a row of row_width pixels that holds `offset`, as
\* <<first offset, length, kind>>: 8-pixel lanes while offset + 8 <= row_width
\* (AVX2), then 4-pixel lanes while offset + 4 <= row_width (AVX2, SSE4.1),
\* then the scalar remainder, one pixel at a time.
Segment(offset, row_width, features) ==
    LET end8 == IF features = "avx2" THEN Lane8 * (row_width \div Lane8) ELSE 0
        end4 == IF features \in {"avx2", "sse41"}
                THEN end8 + Lane4 * ((row_width - end8) \div Lane4) ELSE end8
    IN IF offset < end8 THEN <<Lane8 * (offset \div Lane8), Lane8, "lane8">>
       ELSE IF offset < end4
       THEN <<end8 + Lane4 * ((offset - end8) \div Lane4), Lane4, "lane4">>
       ELSE <<offset, 1, "scalar">>

\* The pixel indices of the segment that holds (x, y) in block blk.
SegmentIndices(x, y, blk, width, features) ==
    LET seg == Segment(x - blk[1], blk[3] - blk[1], features)
    IN {y * width + blk[1] + seg[1] + i : i \in 0..(seg[2] - 1)}

SegmentKind(x, blk, features) == Segment(x - blk[1], blk[3] - blk[1], features)[3]

\* -------------------------------------------------------------- cold pass

\* yiq_delta_8_avx2_signed / yiq_delta_4_sse_signed: the hot-pass lane delta,
\* always blended over white, negative when Y > 0.
yiq_delta_signed(pa, pb) ==
    LET dr == BlendWhite(pa[1], pa[4]) - BlendWhite(pb[1], pb[4])
        dg == BlendWhite(pa[2], pa[4]) - BlendWhite(pb[2], pb[4])
        db == BlendWhite(pa[3], pa[4]) - BlendWhite(pb[3], pb[4])
        delta == YiqMagnitude(dr, dg, db)
    IN IF YiqY(dr, dg, db) > 0 THEN -delta ELSE delta

\* Whether every pixel of the segment holding (x, y) is equal in a32 and b32
\* (the cmpeq / movemask test on a lane).
LaneEqual(a32, b32, x, y, blk, width, features) ==
    \A i \in SegmentIndices(x, y, blk, width, features) : At(a32, i) = At(b32, i)

\* block_has_perceptual_diff_with_features (avx2 / sse / scalar): a lane that
\* is not byte-equal is tested with the unsigned lane delta, a pixel of the
\* scalar remainder with color_delta_f32.
block_has_perceptual_diff(a32, b32, width, blk, max_delta, features) ==
    \E y \in blk[2]..(blk[4] - 1) : \E x \in blk[1]..(blk[3] - 1) :
        LET pa == At(a32, y * width + x)
            pb == At(b32, y * width + x)
        IN IF SegmentKind(x, blk, features) = "scalar"
           THEN pa # pb /\ Abs(color_delta_f32(pa, pb)) > max_delta
           ELSE /\ ~LaneEqual(a32, b32, x, y, blk, width, features)
                /\ yiq_delta_direct(pa, pb) > max_delta

\* ----------------------------------------------------------- output painter

\* draw_gray_pixel_u32 / compute_gray_f32_fast: the scalar painter of the
\* block fill (truncation).
compute_gray_f32_fast(pixel, alpha) ==
    Min(255, Max(0, GrayValue(pixel, alpha)) \div 2550000)

\* fill_block_gray_optimized: the value written at (x, y) of the block; lanes
\* of 8 and 4 pixels convert with cvtps_epi32, the remainder truncates.
FillGrayAt(source, x, blk, pixel_index, alpha, features) ==
    IF SegmentKind(x, blk, features) = "scalar"
    THEN pack_gray_pixel(compute_gray_f32_fast(At(source, pixel_index), alpha))
    ELSE pack_gray_pixel(compute_gray_simd(At(source, pixel_index), alpha))

\* Whether pixel_index lies in the block.
InBlock(pixel_index, blk, width) ==
    /\ pixel_index % width >= blk[1]
    /\ pixel_index % width < blk[3]
    /\ pixel_index \div width >= blk[2]
    /\ pixel_index \div width < blk[4]

fill_block_gray_optimized(source, out, alpha, blk, width, features) ==
    [k \in 1..Len(out) |->
        IF InBlock(k - 1, blk, width)
        THEN FillGrayAt(source, (k - 1) % width, blk, k - 1, alpha, features)
        ELSE out[k]]

\* clear_transparent: output.data.fill(0).
clear_transparent(out) == [k \in 1..Len(out) |-> Transparent]

\* --------------------------------------------------------------- hot pass

\* The marker colour for a counted pixel: diff_color_alt (or diff_color when
\* it is None) for a negative delta, diff_color otherwise.
MarkerFor(delta, options) ==
    IF delta < 0
    THEN pack_color_pixel(IF options.diff_color_alt = <<>> THEN options.diff_color
                          ELSE options.diff_color_alt[1])
    ELSE pack_color_pixel(options.diff_color)

\* process_diff_pixel counting an anti-aliased pixel like any other.
process_diff_pixel_CountsAa(delta, options, x, y, image1, image2, has_output) ==
    IF options.include_aa
    THEN [count |-> 1,
          paint |-> IF has_output THEN <<MarkerFor(delta, options)>> ELSE <<>>]
    ELSE IF is_antialiased(image1, image2, x, y) \/ is_antialiased(image2, image1, x, y)
    THEN [count |-> 1,
          paint |-> IF has_output THEN <<pack_color_pixel(options.aa_color)>> ELSE <<>>]
    ELSE [count |-> 1,
          paint |-> IF has_output THEN <<MarkerFor(delta, options)>> ELSE <<>>]

\* process_diff_pixel asking the classifier in one role order only.
process_diff_pixel_OneOrder(delta, options, x, y, image1, image2, has_output) ==
    IF options.include_aa
    THEN [count |-> 1,
          paint |-> IF has_output THEN <<MarkerFor(delta, options)>> ELSE <<>>]
    ELSE IF is_antialiased(image1, image2, x, y)
    THEN [count |-> 0,
          paint |-> IF has_output THEN <<pack_color_pixel(options.aa_color)>> ELSE <<>>]
    ELSE [count |-> 1,
          paint |-> IF has_output THEN <<MarkerFor(delta, options)>> ELSE <<>>]

\* process_diff_pixel counting only when there is an output to paint.
process_diff_pixel_NeedsOutput(delta, options, x, y, image1, image2, has_output) ==
    IF options.include_aa
    THEN [count |-> IF has_output THEN 1 ELSE 0,
          paint |-> IF has_output THEN <<MarkerFor(delta, options)>> ELSE <<>>]
    ELSE IF is_antialiased(image1, image2, x, y) \/ is_antialiased(image2, image1, x, y)
    THEN [count |-> 0,
          paint |-> IF has_output THEN <<pack_color_pixel(options.aa_color)>> ELSE <<>>]
    ELSE [count |-> IF has_output THEN 1 ELSE 0,
          paint |-> IF has_output THEN <<MarkerFor(delta, options)>> ELSE <<>>]

\* process_diff_pixel: the count added and the pixel painted (<<>> for none)
\* for a pixel over the threshold.  draw_background is not consulted.
process_diff_pixel(delta, options, x, y, image1, image2, has_output) ==
    IF options.include_aa
    THEN [count |-> 1,
          paint |-> IF has_output THEN <<MarkerFor(delta, options)>> ELSE <<>>]
    ELSE IF is_antialiased(image1, image2, x, y) \/ is_antialiased(image2, image1, x, y)
    THEN [count |-> 0,
          paint |-> IF has_output THEN <<pack_color_pixel(options.aa_color)>> ELSE <<>>]
    ELSE [count |-> 1,
          paint |-> IF has_output THEN <<MarkerFor(delta, options)>> ELSE <<>>]

\* One pixel of process_hot_block_avx2 / _sse / _scalar.
HotPixel(x, y, blk, image1, image2, options, has_output, features) ==
    LET width == image1.width
        pa == At(image1.data, y * width + x)
        pb == At(image2.data, y * width + x)
        draw_background == has_output /\ ~options.diff_mask
        max_delta == threshold_to_max_delta(options.threshold)
        scalar == SegmentKind(x, blk, features) = "scalar"
        gray == [count |-> 0,
                 paint |-> IF draw_background
                           THEN <<pack_gray_pixel(compute_gray_pixel_f32(pa, options.alpha))>>
                           ELSE <<>>]
        delta == IF scalar THEN color_delta_f32(pa, pb) ELSE yiq_delta_signed(pa, pb)
    IN IF ~scalar /\ LaneEqual(image1.data, image2.data, x, y, blk, width, features)
       THEN [count |-> 0,
             paint |-> IF draw_background
                       THEN <<pack_gray_pixel(compute_gray_simd(pa, options.alpha))>>
                       ELSE <<>>]
       ELSE IF pa = pb THEN gray
       ELSE IF Abs(delta) > max_delta
       THEN process_diff_pixel(delta, options, x, y, image1, image2, has_output)
       ELSE gray

\* The block's diff count: the sum over the rows and lanes of the block.
RECURSIVE HotCount(_, _, _, _, _, _, _, _)
HotCount(pixels, k, blk, image1, image2, options, has_output, features) ==
    IF k > Len(pixels) THEN 0
    ELSE HotPixel(pixels[k][1], pixels[k][2], blk, image1, image2, options,
                  has_output, features).count
         + HotCount(pixels, k + 1, blk, image1, image2, options, has_output, features)

\* The hot pass handed the whole image for every changed block.
process_hot_block_WholeImage(blk, image1, image2, options, has_output, features) ==
    HotCount(BlockPixels(<<0, 0, image1.width, image1.height>>), 1,
             <<0, 0, image1.width, image1.height>>,
             image1, image2, options, has_output, features)

\* process_hot_block_with_features.
process_hot_block(blk, image1, image2, options, has_output, features) ==
    HotCount(BlockPixels(blk), 1, blk, image1, image2, options, has_output, features)

\* The paint of process_hot_block at pixel_index (<<>> outside the block and
\* where nothing is painted).
HotPaint(pixel_index, blk, image1, image2, options, has_output, features) ==
    IF InBlock(pixel_index, blk, image1.width)
    THEN HotPixel(pixel_index % image1.width, pixel_index \div image1.width, blk,
                  image1, image2, options, has_output, features).paint
    ELSE <<>>

\* The diff count of a whole call: the cold pass over the grid in raster
\* order, the hot pass on the changed blocks.
RECURSIVE DiffCountFrom(_, _, _, _, _)
DiffCountFrom(b, image1, image2, options, features) ==
    IF b >= BlocksX(image1.width, image1.height) * BlocksY(image1.width, image1.height)
    THEN 0
    ELSE LET blk == BlockBounds(b % BlocksX(image1.width, image1.height),
                                b \div BlocksX(image1.width, image1.height),
                                image1.width, image1.height)
         IN (IF block_has_perceptual_diff(image1.data, image2.data, image1.width, blk,
                    threshold_to_max_delta(options.threshold), features)
             THEN process_hot_block(blk, image1, image2, options, FALSE, features)
             ELSE 0)
            + DiffCountFrom(b + 1, image1, image2, options, features)

diff_count_of(image1, image2, options, features, aliased) ==
    IF aliased THEN 0 ELSE DiffCountFrom(0, image1, image2, options, features)

\* ------------------------------------ passes of the packaged binary crate

\* block_has_perceptual_diff_x86 (avx2 / sse / scalar) of the binary crate:
\* lanes are tested with the RGB-only lane delta.
block_has_perceptual_diff_bin(a32, b32, width, blk, max_delta, features) ==
    \E y \in blk[2]..(blk[4] - 1) : \E x \in blk[1]..(blk[3] - 1) :
        LET pa == At(a32, y * width + x)
            pb == At(b32, y * width + x)
        IN IF SegmentKind(x, blk, features) = "scalar"
           THEN pa # pb /\ Abs(color_delta_f32(pa, pb)) > max_delta
           ELSE /\ ~LaneEqual(a32, b32, x, y, blk, width, features)
                /\ yiq_delta_direct_bin(pa, pb) > max_delta

\* draw_gray_pixel_u32: f64 arithmetic, clamp, `as u8`.
draw_gray_pixel_u32(pixel, alpha) ==
    pack_gray_pixel(Min(255, Max(0, GrayValue(pixel, alpha)) \div 2550000))

\* fill_block_gray: draw_gray_pixel_u32 on every pixel of the block.
fill_block_gray(source, out, alpha, blk, width) ==
    [k \in 1..Len(out) |->
        IF InBlock(k - 1, blk, width)
        THEN draw_gray_pixel_u32(At(source, k - 1), alpha)
        ELSE out[k]]

\* process_pixel_f32: the count added and the pixel painted (<<>> for none).
process_pixel_f32(image1, image2, pa, pb, x, y, delta, options, has_output) ==
    LET draw_background == has_output /\ ~options.diff_mask
        gray == [count |-> 0,
                 paint |-> IF draw_background
                           THEN <<draw_gray_pixel_u32(pa, options.alpha)>> ELSE <<>>]
    IN IF pa = pb THEN gray
       ELSE IF Abs(delta) > threshold_to_max_delta(options.threshold)
       THEN IF /\ ~options.include_aa
               /\ \/ is_antialiased(image1, image2, x, y)
                  \/ is_antialiased(image2, image1, x, y)
            THEN [count |-> 0,
                  paint |-> IF draw_background
                            THEN <<pack_color_pixel(options.aa_color)>> ELSE <<>>]
            ELSE [count |-> 1,
                  paint |-> IF has_output THEN <<MarkerFor(delta, options)>> ELSE <<>>]
       ELSE gray

\* One pixel of process_hot_row_avx2 / _sse / _scalar: an equal lane is
\* desaturated pixel by pixel; a lane whose pixels are all opaque in both
\* images takes the unsigned RGB lane delta, any other the scalar delta.
BinHotPixel(x, y, blk, image1, image2, options, has_output, features) ==
    LET width == image1.width
        pa == At(image1.data, y * width + x)
        pb == At(image2.data, y * width + x)
        lane == SegmentIndices(x, y, blk, width, features)
        scalar == SegmentKind(x, blk, features) = "scalar"
        all_opaque == \A i \in lane :
                          At(image1.data, i)[4] = 255 /\ At(image2.data, i)[4] = 255
    IN IF ~scalar /\ LaneEqual(image1.data, image2.data, x, y, blk, width, features)
       THEN [count |-> 0,
             paint |-> IF has_output /\ ~options.diff_mask
                       THEN <<draw_gray_pixel_u32(pa, options.alpha)>> ELSE <<>>]
       ELSE process_pixel_f32(image1, image2, pa, pb, x, y,
                IF ~scalar /\ all_opaque THEN yiq_delta_direct_bin(pa, pb)
                ELSE color_delta_f32(pa, pb),
                options, has_output)

\* The rows of one changed block: the sum of process_hot_row.
RECURSIVE BinHotCount(_, _, _, _, _, _, _, _)
BinHotCount(pixels, k, blk, image1, image2, options, has_output, features) ==
    IF k > Len(pixels) THEN 0
    ELSE BinHotPixel(pixels[k][1], pixels[k][2], blk, image1, image2, options,
                     has_output, features).count
         + BinHotCount(pixels, k + 1, blk, image1, image2, options, has_output, features)

BinHotPaint(pixel_index, blk, image1, image2, options, has_output, features) ==
    IF InBlock(pixel_index, blk, image1.width)
    THEN BinHotPixel(pixel_index % image1.width, pixel_index \div image1.width, blk,
                     image1, image2, options, has_output, features).paint
    ELSE <<>>

\* ------------------------------------------------------------------ state

VARIABLES
    image1,          \* first input: [width, height, data]
    image2,          \* second input
    aliased,         \* image1.data.as_ptr() == image2.data.as_ptr()
    has_output,      \* output.is_some()
    output,          \* the output image's pixels (<<>> without output)
    writes,          \* per output pixel, the writers that stored to it, in order
    options,         \* DiffOptions
    features,        \* X86Features::detect(): "avx2", "sse41" or "scalar"
    pc,              \* position in diff(): "entry", "cold", "hot", "done"
    cold_block,      \* index by * blocks_x + bx of the next cold-pass block
    changed_blocks,  \* the changed_blocks vector
    hot_block,       \* position of the hot pass in changed_blocks
    diff_count,      \* running sum of the hot pass
    result           \* what diff() returned

vars == <<image1, image2, aliased, has_output, output, writes, options, features,
          pc, cold_block, changed_blocks, hot_block, diff_count, result>>

\* ------------------------------------------------------------------ inputs

Sizes == {<<1, 1>>, <<MaxWidth - 4, MaxHeight>>, <<MaxWidth, 1>>,
          <<1, BlockMin + 1>>}

Patterns == {"edge", "slate"}

\* "edge": the left columns White, the right columns Slate; "slate": solid.
PatternData(pattern, w, h) ==
    [k \in 1..(w * h) |->
        IF pattern = "edge" /\ 2 * ((k - 1) % w) < w THEN White ELSE Slate]

RunColours == {Gray, Clear, Veil}

\* data with the len pixels from position p on replaced by colour c.
Repaint(data, p, len, c) ==
    [k \in 1..Len(data) |-> IF k >= p /\ k < p + len THEN c ELSE data[k]]

Thresholds == {0, 10}

DefaultAlpha == 10

OptionSet ==
    [threshold : Thresholds, include_aa : BOOLEAN, alpha : {DefaultAlpha},
     aa_color : {AaColor}, diff_color : {DiffColor},
     diff_color_alt : {<<>>, <<DiffColorAlt>>}, diff_mask : BOOLEAN]

FeatureSet == {"avx2", "sse41", "scalar"}

NoResult == [kind |-> "none"]

\* DiffResult::new called with its two arguments exchanged.
DiffResultNew_Swapped(count, total_pixels) ==
    [kind |-> "Ok", diff_count |-> total_pixels,
     diff_percentage |-> IF count > 0 THEN (10000 * total_pixels) \div count ELSE 0,
     identical |-> (total_pixels = 0)]

\* DiffResult::new with the flag taken from the percentage's guard.
DiffResultNew_FlagFromTotal(count, total_pixels) ==
    [kind |-> "Ok", diff_count |-> count,
     diff_percentage |-> IF total_pixels > 0 THEN (10000 * count) \div total_pixels ELSE 0,
     identical |-> (total_pixels > 0)]

\* DiffResult::new; the percentage is kept in hundredths of a percent.
DiffResultNew(count, total_pixels) ==
    [kind |-> "Ok", diff_count |-> count,
     diff_percentage |-> IF total_pixels > 0 THEN (10000 * count) \div total_pixels ELSE 0,
     identical |-> (count = 0)]

Init ==
    /\ \E size \in Sizes, pattern \in Patterns :
         /\ image1 = Image(size[1], size[2], PatternData(pattern, size[1], size[2]))
         /\ \/ /\ aliased = TRUE
               /\ image2 = image1
            \/ /\ aliased = FALSE
               /\ \E len \in 0..MaxRun, p \in 1..(size[1] * size[2]), c \in RunColours :
                    /\ len = 0 => (p = 1 /\ c = Gray)
                    /\ p + len - 1 <= size[1] * size[2]
                    /\ image2 = Image(size[1], size[2],
                                      Repaint(image1.data, p, len, c))
            \/ /\ aliased = FALSE
               /\ image2 = Image(size[1], size[2],
                                 [k \in 1..(size[1] * size[2]) |-> Gray])
            \/ /\ aliased = FALSE
               /\ \E other \in Sizes \ {size} :
                    image2 = Image(other[1], other[2],
                                   PatternData(pattern, other[1], other[2]))
    /\ options \in OptionSet
    /\ has_output \in BOOLEAN
    /\ (~has_output) => (~options.diff_mask /\ options.diff_color_alt = <<>>)
    /\ output = IF has_output THEN [k \in 1..Len(image1.data) |-> Stale] ELSE <<>>
    /\ writes = IF has_output THEN [k \in 1..Len(image1.data) |-> <<>>] ELSE <<>>
    /\ features \in FeatureSet
    /\ pc = "entry"
    /\ cold_block = 0
    /\ changed_blocks = <<>>
    /\ hot_block = 1
    /\ diff_count = 0
    /\ result = NoResult

\* ----------------------------------------------------- diff(), native crate

SameSize == image1.width = image2.width /\ image1.height = image2.height

TotalBlocks == BlocksX(image1.width, image1.height) * BlocksY(image1.width, image1.height)

\* The entry clear left out.
AfterClear_Skipped == output

\* The output after the entry clear: transparent in diff_mask mode.
AfterClear ==
    IF has_output /\ options.diff_mask THEN clear_transparent(output) ELSE output

WritesAfterClear ==
    IF has_output /\ options.diff_mask
    THEN [k \in 1..Len(writes) |-> Append(writes[k], "clear")]
    ELSE writes

\* The size check placed after the diff_mask clear.
SizeMismatch_AfterClear ==
    /\ pc = "entry"
    /\ ~SameSize
    /\ output' = AfterClear
    /\ writes' = WritesAfterClear
    /\ result' = [kind |-> "SizeMismatch",
                  img1_width |-> image1.width, img1_height |-> image1.height,
                  img2_width |-> image2.width, img2_height |-> image2.height]
    /\ pc' = "done"
    /\ UNCHANGED <<image1, image2, aliased, has_output, options,
                   features, cold_block, changed_blocks, hot_block, diff_count>>

\* if image1.width != image2.width || image1.height != image2.height
SizeMismatch ==
    /\ pc = "entry"
    /\ ~SameSize
    /\ result' = [kind |-> "SizeMismatch",
                  img1_width |-> image1.width, img1_height |-> image1.height,
                  img2_width |-> image2.width, img2_height |-> image2.height]
    /\ pc' = "done"
    /\ UNCHANGED <<image1, image2, aliased, has_output, output, writes, options,
                   features, cold_block, changed_blocks, hot_block, diff_count>>

\* The pointer-equality shortcut: clear or fill the whole output, return 0.
AliasedReturn ==
    /\ pc = "entry"
    /\ SameSize
    /\ aliased
    /\ LET whole == <<0, 0, image1.width, image1.height>>
       IN IF has_output /\ ~options.diff_mask
          THEN /\ output' = fill_block_gray_optimized(image1.data, AfterClear,
                               options.alpha, whole, image1.width, features)
               /\ writes' = [k \in 1..Len(writes) |-> Append(WritesAfterClear[k], "fill")]
          ELSE /\ output' = AfterClear
               /\ writes' = WritesAfterClear
    /\ result' = DiffResultNew(0, image1.width * image1.height)
    /\ pc' = "done"
    /\ UNCHANGED <<image1, image2, aliased, has_output, options, features,
                   cold_block, changed_blocks, hot_block, diff_count>>

\* Entry of the two passes: the clear, then the block grid.
BeginColdPass ==
    /\ pc = "entry"
    /\ SameSize
    /\ ~aliased
    /\ output' = AfterClear
    /\ writes' = WritesAfterClear
    /\ pc' = "cold"
    /\ UNCHANGED <<image1, image2, aliased, has_output, options, features,
                   cold_block, changed_blocks, hot_block, diff_count, result>>

\* The cold pass painting every block, changed or not.
ColdFills_Always(has_diff) == has_output /\ ~options.diff_mask

\* else if let Some(out) = output { if !options.diff_mask { fill .. } }
ColdFills(has_diff) == ~has_diff /\ has_output /\ ~options.diff_mask

\* The grid walked from its last block to its first.
BlockAt_Reversed(b) ==
    BlockBounds((TotalBlocks - 1 - b) % BlocksX(image1.width, image1.height),
                (TotalBlocks - 1 - b) \div BlocksX(image1.width, image1.height),
                image1.width, image1.height)

\* Bounds of the block with linear index b.
BlockAt(b) ==
    BlockBounds(b % BlocksX(image1.width, image1.height),
                b \div BlocksX(image1.width, image1.height),
                image1.width, image1.height)

\* One iteration of the cold-pass loop.
ColdBlock ==
    /\ pc = "cold"
    /\ LET blk == BlockAt(cold_block)
           has_diff == block_has_perceptual_diff(image1.data, image2.data,
                           image1.width, blk,
                           threshold_to_max_delta(options.threshold), features)
       IN /\ changed_blocks' = IF has_diff THEN Append(changed_blocks, blk)
                               ELSE changed_blocks
          /\ IF ColdFills(has_diff)
             THEN /\ output' = fill_block_gray_optimized(image1.data, output,
                                  options.alpha, blk, image1.width, features)
                  /\ writes' = [k \in 1..Len(writes) |->
                                   IF InBlock(k - 1, blk, image1.width)
                                   THEN Append(writes[k], "fill")
                                   ELSE writes[k]]
             ELSE UNCHANGED <<output, writes>>
    /\ cold_block' = cold_block + 1
    /\ pc' = IF cold_block + 1 = TotalBlocks THEN "hot" ELSE "cold"
    /\ UNCHANGED <<image1, image2, aliased, has_output, options, features,
                   hot_block, diff_count, result>>

\* if changed_blocks.is_empty() { return Ok(DiffResult::new(0, total_pixels)) }
ReturnNoChanges ==
    /\ pc = "hot"
    /\ changed_blocks = <<>>
    /\ result' = DiffResultNew(0, image1.width * image1.height)
    /\ pc' = "done"
    /\ UNCHANGED <<image1, image2, aliased, has_output, output, writes, options,
                   features, cold_block, changed_blocks, hot_block, diff_count>>

\* One changed block of the hot pass.
HotBlock ==
    /\ pc = "hot"
    /\ hot_block <= Len(changed_blocks)
    /\ LET blk == changed_blocks[hot_block]
       IN /\ diff_count' = diff_count
                 + process_hot_block(blk, image1, image2, options, has_output, features)
          /\ output' = [k \in 1..Len(output) |->
                LET paint == HotPaint(k - 1, blk, image1, image2, options,
                                      has_output, features)
                IN IF paint = <<>> THEN output[k] ELSE paint[1]]
          /\ writes' = [k \in 1..Len(writes) |->
                IF HotPaint(k - 1, blk, image1, image2, options,
                            has_output, features) = <<>>
                THEN writes[k] ELSE Append(writes[k], "hot")]
    /\ hot_block' = hot_block + 1
    /\ UNCHANGED <<image1, image2, aliased, has_output, options, features, pc,
                   cold_block, changed_blocks, result>>

\* Ok(DiffResult::new(diff_count, total_pixels))
ReturnAfterHot ==
    /\ pc = "hot"
    /\ changed_blocks # <<>>
    /\ hot_block > Len(changed_blocks)
    /\ result' = DiffResultNew(diff_count, image1.width * image1.height)
    /\ pc' = "done"
    /\ UNCHANGED <<image1, image2, aliased, has_output, output, writes, options,
                   features, cold_block, changed_blocks, hot_block, diff_count>>

Next ==
    \/ SizeMismatch
    \/ AliasedReturn
    \/ BeginColdPass
    \/ ColdBlock
    \/ ReturnNoChanges
    \/ HotBlock
    \/ ReturnAfterHot

Spec == Init /\ [][Next]_vars

\* ------------------------------------------- diff(), packaged binary crate

\* Entry: the diff_mask clear; there is no pointer-equality shortcut.
BinBeginColdPass ==
    /\ pc = "entry"
    /\ SameSize
    /\ output' = AfterClear
    /\ writes' = WritesAfterClear
    /\ pc' = "cold"
    /\ UNCHANGED <<image1, image2, aliased, has_output, options, features,
                   cold_block, changed_blocks, hot_block, diff_count, result>>

\* One iteration of the cold-pass loop: push (by * blocks_x + bx) as u16;
\* nothing is painted.
BinColdBlock ==
    /\ pc = "cold"
    /\ changed_blocks' =
         IF block_has_perceptual_diff_bin(image1.data, image2.data, image1.width,
                BlockAt(cold_block), threshold_to_max_delta(options.threshold), features)
         THEN Append(changed_blocks, cold_block % 65536)
         ELSE changed_blocks
    /\ cold_block' = cold_block + 1
    /\ pc' = IF cold_block + 1 = TotalBlocks THEN "fill" ELSE "cold"
    /\ UNCHANGED <<image1, image2, aliased, has_output, output, writes, options,
                   features, hot_block, diff_count, result>>

\* Early exit "no gray fill work needed": the output is left as it is.
BinReturnNoChanges ==
    /\ pc = "fill"
    /\ changed_blocks = <<>>
    /\ result' = DiffResultNew(0, image1.width * image1.height)
    /\ pc' = "done"
    /\ UNCHANGED <<image1, image2, aliased, has_output, output, writes, options,
                   features, cold_block, changed_blocks, hot_block, diff_count>>

\* Whether block b was recorded as changed (bitset or `contains`).
BinIsChanged(b) == \E i \in 1..Len(changed_blocks) : changed_blocks[i] = b % 65536

\* The pixels the deferred fill covers: those of the unchanged blocks.
BinFilled(k) ==
    \E b \in 0..(TotalBlocks - 1) :
        ~BinIsChanged(b) /\ InBlock(k - 1, BlockAt(b), image1.width)

\* Deferred gray fill of the unchanged blocks, in background mode.
BinDeferredFill ==
    /\ pc = "fill"
    /\ changed_blocks # <<>>
    /\ IF has_output /\ ~options.diff_mask
       THEN /\ output' = [k \in 1..Len(output) |->
                  IF BinFilled(k)
                  THEN draw_gray_pixel_u32(At(image1.data, k - 1), options.alpha)
                  ELSE output[k]]
            /\ writes' = [k \in 1..Len(writes) |->
                  IF BinFilled(k) THEN Append(writes[k], "fill") ELSE writes[k]]
       ELSE UNCHANGED <<output, writes>>
    /\ pc' = "hot"
    /\ UNCHANGED <<image1, image2, aliased, has_output, options, features,
                   cold_block, changed_blocks, hot_block, diff_count, result>>

\* One changed block of the hot pass, located from its u16 index.
BinHotBlock ==
    /\ pc = "hot"
    /\ hot_block <= Len(changed_blocks)
    /\ LET blk == BlockAt(changed_blocks[hot_block])
       IN /\ diff_count' = diff_count
                 + BinHotCount(BlockPixels(blk), 1, blk, image1, image2, options,
                               has_output, features)
          /\ output' = [k \in 1..Len(output) |->
                LET paint == BinHotPaint(k - 1, blk, image1, image2, options,
                                         has_output, features)
                IN IF paint = <<>> THEN output[k] ELSE paint[1]]
          /\ writes' = [k \in 1..Len(writes) |->
                IF BinHotPaint(k - 1, blk, image1, image2, options,
                               has_output, features) = <<>>
                THEN writes[k] ELSE Append(writes[k], "hot")]
    /\ hot_block' = hot_block + 1
    /\ UNCHANGED <<image1, image2, aliased, has_output, options, features, pc,
                   cold_block, changed_blocks, result>>

NextBin ==
    \/ SizeMismatch
    \/ BinBeginColdPass
    \/ BinColdBlock
    \/ BinReturnNoChanges
    \/ BinDeferredFill
    \/ BinHotBlock
    \/ ReturnAfterHot

SpecBin == Init /\ [][NextBin]_vars

\* ------------------------------------- diff() on buffers of any byte length

\* Image is a struct of public fields: data may have any length.  `bytes` is
\* data.len(); `data` is the as_u32 view, bytes / 4 words (words past the
\* pattern hold arbitrary bytes).
Buffer(w, h, data, bytes) ==
    [width |-> w, height |-> h, bytes |-> bytes,
     data |-> [k \in 1..(bytes \div 4) |-> IF k <= Len(data) THEN data[k] ELSE Stale]]

\* Byte lengths tried for a W x H image: one pixel short, exact, one byte
\* long, one pixel long.
ByteLengths(w, h) == {4 * w * h - 4, 4 * w * h, 4 * w * h + 1, 4 * w * h + 4}

SizedSizes == {<<1, 1>>, <<MaxWidth - 4, 1>>}

SizedOptions ==
    {o \in OptionSet : o.threshold = 10 /\ o.include_aa /\ o.diff_color_alt = <<>>}

InitSize ==
    /\ options \in SizedOptions
    /\ has_output \in BOOLEAN
    /\ (~has_output) => ~options.diff_mask
    /\ \E size \in SizedSizes, pattern \in Patterns :
       \E bytes1 \in ByteLengths(size[1], size[2]) :
         /\ image1 = Buffer(size[1], size[2],
                            PatternData(pattern, size[1], size[2]), bytes1)
         /\ \/ /\ aliased = TRUE
               /\ image2 = image1
            \/ /\ aliased = FALSE
               /\ \E len \in 0..1, c \in {Gray, White},
                     bytes2 \in ByteLengths(size[1], size[2]) :
                    image2 = Buffer(size[1], size[2],
                                 Repaint(PatternData(pattern, size[1], size[2]), 1, len, c),
                                 bytes2)
            \/ /\ aliased = FALSE
               /\ \E other \in SizedSizes \ {size} :
                    image2 = Buffer(other[1], other[2],
                                 PatternData(pattern, other[1], other[2]),
                                 4 * other[1] * other[2])
         /\ output = IF has_output THEN [k \in 1..(size[1] * size[2]) |-> Stale] ELSE <<>>
         /\ writes = IF has_output THEN [k \in 1..(size[1] * size[2]) |-> <<>>] ELSE <<>>
    /\ features \in FeatureSet
    /\ pc = "entry"
    /\ cold_block = 0
    /\ changed_blocks = <<>>
    /\ hot_block = 1
    /\ diff_count = 0
    /\ result = NoResult

\* Whether a pass would index past the end of an as_u32 view.
ShortBuffer ==
    \/ Len(image1.data) < image1.width * image1.height
    \/ Len(image2.data) < image2.width * image2.height

\* Whether the call reads a view past its end: the pointer-equality shortcut
\* reads image1 only to fill a background.
ReadsPastEnd ==
    ShortBuffer /\ (aliased => (has_output /\ ~options.diff_mask))

\* diff() holds no length check: when no read passes the end of a view the
\* call proceeds as on a well-formed image (the surplus is never read).
SizedAliasedReturn == ~ReadsPastEnd /\ AliasedReturn

SizedBeginColdPass == ~ReadsPastEnd /\ BeginColdPass

\* A view that is too short is read past its end: a bounds-check panic in the
\* indexed loops, an out-of-bounds load (undefined behaviour) in the pointer
\* loops; any count may come back, and the clear may or may not have run.
ShortBufferRead ==
    /\ pc = "entry"
    /\ SameSize
    /\ ReadsPastEnd
    /\ \E outcome \in {[kind |-> "panic"]}
                 \cup {DiffResultNew(c, image1.width * image1.height) :
                          c \in 0..(image1.width * image1.height)} :
         result' = outcome
    /\ \E cleared \in BOOLEAN :
         /\ output' = IF cleared THEN AfterClear ELSE output
         /\ writes' = IF cleared THEN WritesAfterClear ELSE writes
    /\ pc' = "done"
    /\ UNCHANGED <<image1, image2, aliased, has_output, options, features,
                   cold_block, changed_blocks, hot_block, diff_count>>

NextSize ==
    \/ SizeMismatch
    \/ SizedAliasedReturn
    \/ SizedBeginColdPass
    \/ ShortBufferRead
    \/ ColdBlock
    \/ ReturnNoChanges
    \/ HotBlock
    \/ ReturnAfterHot

SpecSize == InitSize /\ [][NextSize]_vars

\* --------------------------------------- main() of the packaged binary crate

\* Args as they reach DiffOptions: threshold, include_aa = !antialiasing,
\* diff_mask, the rest from Default; fail_on_layout stays with main.
CliOptionSet ==
    [threshold : Thresholds, include_aa : BOOLEAN, alpha : {DefaultAlpha},
     aa_color : {AaColor}, diff_color : {DiffColor},
     diff_color_alt : {<<>>}, diff_mask : BOOLEAN, fail_on_layout : BOOLEAN]

\* The process before load_two_pngs: the images are what the two files hold.
InitCli ==
    /\ options \in CliOptionSet
    /\ has_output \in BOOLEAN
    /\ aliased = FALSE
    /\ \E size \in SizedSizes, pattern \in Patterns :
         /\ image1 = Image(size[1], size[2], PatternData(pattern, size[1], size[2]))
         /\ \/ \E len \in 0..1, p \in 1..(size[1] * size[2]) :
                 /\ len = 0 => p = 1
                 /\ image2 = Image(size[1], size[2], Repaint(image1.data, p, len, Gray))
            \/ \E other \in SizedSizes \ {size} :
                 image2 = Image(other[1], other[2],
                                PatternData(pattern, other[1], other[2]))
    /\ output = IF has_output THEN [k \in 1..Len(image1.data) |-> Transparent] ELSE <<>>
    /\ writes = IF has_output THEN [k \in 1..Len(image1.data) |-> <<>>] ELSE <<>>
    /\ features \in FeatureSet
    /\ pc = "main"
    /\ cold_block = 0
    /\ changed_blocks = <<>>
    /\ hot_block = 1
    /\ diff_count = 0
    /\ result = NoResult

\* The process exit: the code, whether the images were loaded, how saving
\* the output went, and what diff() returned.
CliExit(code, loaded, saved) ==
    /\ result' = [kind |-> "Exit", code |-> code, loaded |-> loaded,
                  saved |-> saved, diff |-> result]
    /\ pc' = "exit"
    /\ UNCHANGED <<image1, image2, aliased, has_output, output, writes, options,
                   features, cold_block, changed_blocks, hot_block, diff_count>>

\* load_two_pngs returned Err: "Failed to load images", ExitCode 2.
BinCliLoadError == pc = "main" /\ CliExit(2, FALSE, "none")

\* --fail-on-layout and the sizes differ: "Layout differs", ExitCode 1.
BinCliLayout ==
    /\ pc = "main"
    /\ options.fail_on_layout /\ ~SameSize
    /\ CliExit(1, TRUE, "none")

\* Otherwise main builds the options and the output image and calls diff().
BinCliCallDiff ==
    /\ pc = "main"
    /\ ~(options.fail_on_layout /\ ~SameSize)
    /\ pc' = "entry"
    /\ UNCHANGED <<image1, image2, aliased, has_output, output, writes, options,
                   features, cold_block, changed_blocks, hot_block, diff_count, result>>

\* diff() returned Err: "Diff failed", ExitCode 2.
BinCliDiffError ==
    /\ pc = "done"
    /\ result.kind # "Ok"
    /\ CliExit(2, TRUE, "none")

\* The output is saved only when the images differ; save_png may fail.
BinCliSaveError ==
    /\ pc = "done"
    /\ result.kind = "Ok" /\ ~result.identical /\ has_output
    /\ CliExit(2, TRUE, "failed")

\* output_result, then ExitCode 0 if identical, 1 otherwise.
BinCliReport ==
    /\ pc = "done"
    /\ result.kind = "Ok"
    /\ CliExit(IF result.identical THEN 0 ELSE 1, TRUE,
               IF ~result.identical /\ has_output THEN "ok" ELSE "none")

NextBinCli ==
    \/ BinCliLoadError
    \/ BinCliLayout
    \/ BinCliCallDiff
    \/ SizeMismatch
    \/ BinBeginColdPass
    \/ BinColdBlock
    \/ BinReturnNoChanges
    \/ BinDeferredFill
    \/ BinHotBlock
    \/ ReturnAfterHot
    \/ BinCliDiffError
    \/ BinCliSaveError
    \/ BinCliReport

SpecBinCli == InitCli /\ [][NextBinCli]_vars

\* ------------------------------------------------ the driver's block grid

\* Widths and heights tried; every product stays below 2^31 and off the
\* areas at which log2 r is a tie.
GridDims == {1, 7, 33, 130, 900, 3000, 16000, 46000}

\* Dimensions without pixels: only the grid is computed.
InitGrid ==
    /\ \E w \in GridDims, h \in GridDims :
         /\ image1 = Image(w, h, <<>>)
         /\ image2 = Image(w, h, <<>>)
    /\ aliased = FALSE
    /\ has_output = FALSE
    /\ output = <<>>
    /\ writes = <<>>
    /\ options \in {o \in SizedOptions : ~o.diff_mask}
    /\ features = "scalar"
    /\ pc = "entry"
    /\ cold_block = 0
    /\ changed_blocks = <<>>
    /\ hot_block = 1
    /\ diff_count = 0
    /\ result = NoResult

\* The grid as a driver computes it from the block size.
Grid(build, block_size) ==
    [kind |-> "grid", build |-> build, block_size |-> block_size,
     blocks_x |-> (image1.width + block_size - 1) \div block_size,
     blocks_y |-> (image1.height + block_size - 1) \div block_size]

\* diff() of the native and binary crates: calculate_block_size, blocks_x,
\* blocks_y.
NativeGrid ==
    /\ pc = "entry"
    /\ result' = Grid("native", calculate_block_size(image1.width, image1.height))
    /\ pc' = "done"
    /\ UNCHANGED <<image1, image2, aliased, has_output, output, writes, options,
                   features, cold_block, changed_blocks, hot_block, diff_count>>

\* blazediff_internal of the wasm build: calculate_optimal_block_size,
\* blocks_x, blocks_y.
WasmGrid ==
    /\ pc = "entry"
    /\ result' = Grid("wasm", calculate_optimal_block_size(image1.width, image1.height))
    /\ pc' = "done"
    /\ UNCHANGED <<image1, image2, aliased, has_output, output, writes, options,
                   features, cold_block, changed_blocks, hot_block, diff_count>>

NextGrid == NativeGrid \/ WasmGrid

SpecGrid == InitGrid /\ [][NextGrid]_vars

\* ------------------------------------ the hot pass under any block schedule

\* changed_blocks with the entries at positions i and j exchanged.
Swap(blocks, i, j) ==
    [k \in 1..Len(blocks) |->
        IF k = i THEN blocks[j] ELSE IF k = j THEN blocks[i] ELSE blocks[k]]

\* The hot pass taking a block one column wider than the recorded bounds.
HotBlockAnyOrder_Spill ==
    /\ pc = "hot"
    /\ \E j \in hot_block..Len(changed_blocks) :
         LET rec == changed_blocks[j]
             blk == <<rec[1], rec[2], Min(rec[3] + 1, image1.width), rec[4]>>
         IN /\ diff_count' = diff_count
                   + process_hot_block(blk, image1, image2, options, has_output, features)
            /\ output' = [k \in 1..Len(output) |->
                  LET paint == HotPaint(k - 1, blk, image1, image2, options,
                                        has_output, features)
                  IN IF paint = <<>> THEN output[k] ELSE paint[1]]
            /\ writes' = [k \in 1..Len(writes) |->
                  IF HotPaint(k - 1, blk, image1, image2, options,
                              has_output, features) = <<>>
                  THEN writes[k] ELSE Append(writes[k], "hot")]
            /\ changed_blocks' = Swap(changed_blocks, hot_block, j)
    /\ hot_block' = hot_block + 1
    /\ UNCHANGED <<image1, image2, aliased, has_output, options, features, pc,
                   cold_block, result>>

\* One changed block of the hot pass, taken in any order from the blocks not
\* yet processed (those at positions hot_block and up); its partial count is
\* added to the sum.
HotBlockAnyOrder ==
    /\ pc = "hot"
    /\ \E j \in hot_block..Len(changed_blocks) :
         LET blk == changed_blocks[j]
         IN /\ diff_count' = diff_count
                   + process_hot_block(blk, image1, image2, options, has_output, features)
            /\ output' = [k \in 1..Len(output) |->
                  LET paint == HotPaint(k - 1, blk, image1, image2, options,
                                        has_output, features)
                  IN IF paint = <<>> THEN output[k] ELSE paint[1]]
            /\ writes' = [k \in 1..Len(writes) |->
                  IF HotPaint(k - 1, blk, image1, image2, options,
                              has_output, features) = <<>>
                  THEN writes[k] ELSE Append(writes[k], "hot")]
            /\ changed_blocks' = Swap(changed_blocks, hot_block, j)
    /\ hot_block' = hot_block + 1
    /\ UNCHANGED <<image1, image2, aliased, has_output, options, features, pc,
                   cold_block, result>>

NextAnyOrder ==
    \/ SizeMismatch
    \/ AliasedReturn
    \/ BeginColdPass
    \/ ColdBlock
    \/ ReturnNoChanges
    \/ HotBlockAnyOrder
    \/ ReturnAfterHot

SpecAnyOrder == Init /\ [][NextAnyOrder]_vars

\* ------------------------------------------------- the anti-aliasing helpers

\* Image sizes with an interior: the last interior pixel is (1, 1) in the
\* first and (2, 1) in the second.
AaSizes == {<<3, 3>>, <<4, 3>>}

AaColours == {White, Gray, Slate}

\* A white image whose top-left 2x2 pixels take the given colours.
AaData(w, h, c00, c10, c01, c11) ==
    [k \in 1..(w * h) |->
        IF k = 1 THEN c00
        ELSE IF k = 2 THEN c10
        ELSE IF k = w + 1 THEN c01
        ELSE IF k = w + 2 THEN c11
        ELSE White]

\* Two images of one size; the second is the first or a solid white one.
InitAa ==
    /\ \E size \in AaSizes, c00 \in AaColours, c10 \in AaColours,
          c01 \in AaColours, c11 \in AaColours :
         /\ image1 = Image(size[1], size[2],
                           AaData(size[1], size[2], c00, c10, c01, c11))
         /\ \/ image2 = image1
            \/ image2 = Image(size[1], size[2],
                              AaData(size[1], size[2], White, White, White, White))
    /\ aliased = FALSE
    /\ has_output = FALSE
    /\ output = <<>>
    /\ writes = <<>>
    /\ options \in {o \in SizedOptions : ~o.diff_mask}
    /\ features \in FeatureSet
    /\ pc = "entry"
    /\ cold_block = 0
    /\ changed_blocks = <<>>
    /\ hot_block = 1
    /\ diff_count = 0
    /\ result = NoResult

\* What a call that read the index set `reads` can return: its value, or,
\* when a vector load went past the end of the buffer, whatever the read of
\* memory outside the slice does (here: the value, the masked lane being
\* ignored, or a fault).
AfterReads(kind, x, y, value, reads) ==
    {[kind |-> kind, fault |-> FALSE, x |-> x, y |-> y, value |-> value,
      reads |-> reads]}
      \cup (IF reads \subseteq 0..(image1.width * image1.height - 1) THEN {}
            ELSE {[kind |-> kind, fault |-> TRUE, x |-> x, y |-> y,
                   value |-> FALSE, reads |-> reads]})

\* One call is_antialiased(image1, image2, x, y) or, the roles exchanged,
\* is_antialiased(image2, image1, x, y).
Classify ==
    /\ pc = "entry"
    /\ \E x \in 0..(image1.width - 1), y \in 0..(image1.height - 1) :
         \/ result' \in AfterReads("is_antialiased", x, y,
                           is_antialiased(image1, image2, x, y),
                           is_antialiased_reads(image1, image2, x, y, features))
         \/ result' \in AfterReads("is_antialiased_swapped", x, y,
                           is_antialiased(image2, image1, x, y),
                           is_antialiased_reads(image2, image1, x, y, features))
    /\ pc' = "done"
    /\ UNCHANGED <<image1, image2, aliased, has_output, output, writes, options,
                   features, cold_block, changed_blocks, hot_block, diff_count>>

\* One call has_many_siblings(a32, x, y, width, height) on the first image.
Siblings ==
    /\ pc = "entry"
    /\ \E x \in 0..(image1.width - 1), y \in 0..(image1.height - 1) :
         result' \in AfterReads("has_many_siblings", x, y,
                        has_many_siblings(image1.data, x, y, image1.width, image1.height),
                        has_many_siblings_reads(x, y, image1.width, image1.height,
                                                features))
    /\ pc' = "done"
    /\ UNCHANGED <<image1, image2, aliased, has_output, output, writes, options,
                   features, cold_block, changed_blocks, hot_block, diff_count>>

NextAa ==
    \/ Classify
    \/ Siblings

SpecAa == InitAa /\ [][NextAa]_vars

\* ------------------------------------------------- simd::compare_pixels

\* compare_4_sse41 / compare_8_avx2 / compare_16_avx512 / compare_4_neon:
\* whether any of the `lanes` words loaded at `offset` differ.
compare_lanes(a, b, offset, lanes) ==
    \E i \in 1..lanes : a[offset + i] # b[offset + i]

\* compare_pixels_scalar: the loop over every index.
compare_pixels_scalar(a, b) == \E i \in 1..Len(a) : a[i] # b[i]

\* The aarch64 branch: 4-word chunks while offset + 4 <= len, then the
\* remaining words one by one.
compare_pixels_neon(a, b) ==
    \/ \E chunk \in 0..(Len(a) \div Lane4) :
          chunk * Lane4 + Lane4 <= Len(a) /\ compare_lanes(a, b, chunk * Lane4, Lane4)
    \/ \E i \in (Lane4 * (Len(a) \div Lane4) + 1)..Len(a) : a[i] # b[i]

\* compare_pixels(a, b) on the backend detect_backend() reports: the x86_64
\* arms return the comparison of one vector loaded at the start of the slices.
compare_pixels(a, b, backend) ==
    IF backend = "avx512" /\ Len(a) >= 2 * Lane8
    THEN compare_lanes(a, b, 0, 2 * Lane8)
    ELSE IF backend \in {"avx2", "avx512"} /\ Len(a) >= Lane8
    THEN compare_lanes(a, b, 0, Lane8)
    ELSE IF backend \in {"sse41", "avx2", "avx512"} /\ Len(a) >= Lane4
    THEN compare_lanes(a, b, 0, Lane4)
    ELSE IF backend = "neon"
    THEN compare_pixels_neon(a, b)
    ELSE compare_pixels_scalar(a, b)

\* SimdBackend.
Backends == {"scalar", "sse41", "avx2", "avx512", "neon"}

\* Slice lengths around the vector widths.
CompareLens == {0, 1, 3, 4, 5, 7, 8, 9, 15, 16, 17}

\* Two slices of one length, kept in the two images' buffers: equal, or
\* different in one or two words.
InitCompare ==
    /\ \E len \in CompareLens :
         /\ image1 = Image(len, 1, [k \in 1..len |-> 0])
         /\ \E p \in 0..len, q \in 0..len :
              image2 = Image(len, 1, [k \in 1..len |-> IF k = p \/ k = q THEN 1 ELSE 0])
    /\ aliased = FALSE
    /\ has_output = FALSE
    /\ output = <<>>
    /\ writes = <<>>
    /\ options \in {o \in SizedOptions : ~o.diff_mask}
    /\ features \in Backends
    /\ pc = "entry"
    /\ cold_block = 0
    /\ changed_blocks = <<>>
    /\ hot_block = 1
    /\ diff_count = 0
    /\ result = NoResult

\* One call compare_pixels(a, b).
ComparePixels ==
    /\ pc = "entry"
    /\ result' = [kind |-> "compare_pixels",
                  value |-> compare_pixels(image1.data, image2.data, features)]
    /\ pc' = "done"
    /\ UNCHANGED <<image1, image2, aliased, has_output, output, writes, options,
                   features, cold_block, changed_blocks, hot_block, diff_count>>

NextCompare == ComparePixels

SpecCompare == InitCompare /\ [][NextCompare]_vars

\* ------------------------------------------------------------ Image::new

\* Widths and heights tried; every product stays below 2^31.
AllocDims == {1, 10, 100, 1000, 4096, 32768, 40000, 46000}

\* The u32 range in 4-byte words: a byte length wraps at 2^32, that is at
\* 2^30 pixels.
WordWrap == 2 ^ 30

\* Dimensions only: the buffer is what the constructor makes of them.
InitAlloc ==
    /\ \E w \in AllocDims, h \in AllocDims :
         /\ image1 = Image(w, h, <<>>)
         /\ image2 = Image(w, h, <<>>)
    /\ aliased = FALSE
    /\ has_output = FALSE
    /\ output = <<>>
    /\ writes = <<>>
    /\ options \in {o \in SizedOptions : ~o.diff_mask}
    /\ features = "scalar"
    /\ pc = "entry"
    /\ cold_block = 0
    /\ changed_blocks = <<>>
    /\ hot_block = 1
    /\ diff_count = 0
    /\ result = NoResult

\* (width * height * 4) as usize, computed in u32 and counted in pixels: the
\* product wraps when overflow checks are off (release profile) and panics
\* when they are on (debug profile).
AllocLength(constructor, width, height) ==
    {[kind |-> constructor, width |-> width, height |-> height,
      pixels |-> (width * height) % WordWrap]}
      \cup (IF width * height >= WordWrap
            THEN {[kind |-> "panic", width |-> width, height |-> height, pixels |-> 0]}
            ELSE {})

\* Image::new(width, height).
ImageNew ==
    /\ pc = "entry"
    /\ result' \in AllocLength("Image::new", image1.width, image1.height)
    /\ pc' = "done"
    /\ UNCHANGED <<image1, image2, aliased, has_output, output, writes, options,
                   features, cold_block, changed_blocks, hot_block, diff_count>>

\* Image::new_uninit(width, height).
ImageNewUninit ==
    /\ pc = "entry"
    /\ result' \in AllocLength("Image::new_uninit", image1.width, image1.height)
    /\ pc' = "done"
    /\ UNCHANGED <<image1, image2, aliased, has_output, output, writes, options,
                   features, cold_block, changed_blocks, hot_block, diff_count>>

NextAlloc ==
    \/ ImageNew
    \/ ImageNewUninit

SpecAlloc == InitAlloc /\ [][NextAlloc]_vars

\* ------------------------------- diff(), binary crate: grids of many blocks

\* Image sizes with 1, 4, 62,500, 78,125 and 129,600 blocks.
WideSizes == {<<1, 1>>, <<130, 130>>, <<1, 4000000>>, <<1, 5000000>>, <<46000, 46000>>}

\* `as u16` of a linear block index.
AsU16(block_idx) == block_idx % (2 ^ 16)

\* Block indices tried as changed blocks.
DirtyCandidates(total_blocks) ==
    {0, 1, 2 ^ 16 - 1, 2 ^ 16, 2 ^ 16 + 1, total_blocks - 1} \cap 0..(total_blocks - 1)

\* Dimensions without pixels; image2.dirty holds the linear indices of the
\* blocks in which block_has_perceptual_diff finds a difference.
InitWide ==
    /\ \E size \in WideSizes :
         /\ image1 = Image(size[1], size[2], <<>>)
         /\ \E dirty \in SUBSET DirtyCandidates(BlocksX(size[1], size[2])
                                                * BlocksY(size[1], size[2])) :
              /\ Cardinality(dirty) <= 2
              /\ image2 = [width |-> size[1], height |-> size[2], data |-> <<>>,
                           dirty |-> dirty]
    /\ aliased = FALSE
    /\ has_output \in BOOLEAN
    /\ options \in {o \in SizedOptions : has_output \/ ~o.diff_mask}
    /\ output = <<>>
    /\ writes = {}
    /\ features = "scalar"
    /\ pc = "entry"
    /\ cold_block = 0
    /\ changed_blocks = <<>>
    /\ hot_block = 1
    /\ diff_count = 0
    /\ result = NoResult

\* The elements of a set of numbers in ascending order.
RECURSIVE Ascending(_)
Ascending(set) ==
    IF set = {} THEN <<>>
    ELSE LET least == CHOOSE b \in set : \A c \in set : b <= c
         IN <<least>> \o Ascending(set \ {least})

\* The cold-pass loop, whole: every changed block is pushed in raster order
\* as (by * blocks_x + bx) as u16.
BinWideColdPass ==
    /\ pc = "entry"
    /\ changed_blocks' = [i \in 1..Cardinality(image2.dirty) |->
                             AsU16(Ascending(image2.dirty)[i])]
    /\ cold_block' = TotalBlocks
    /\ pc' = "fill"
    /\ UNCHANGED <<image1, image2, aliased, has_output, output, writes, options,
                   features, hot_block, diff_count, result>>

\* if changed_blocks.is_empty() { return Ok(DiffResult::new(0, total_pixels)) }
BinWideReturnNoChanges ==
    /\ pc = "fill"
    /\ changed_blocks = <<>>
    /\ result' = [kind |-> "Ok", processed |-> {}, filled_all_but |-> {},
                  background |-> FALSE]
    /\ pc' = "done"
    /\ UNCHANGED <<image1, image2, aliased, has_output, output, writes, options,
                   features, cold_block, changed_blocks, hot_block, diff_count>>

\* The deferred gray fill, whole, when a background is drawn: `writes` gets
\* the blocks it skips, which are the blocks whose bit is set (more than 256
\* blocks) or whose u16 index is in changed_blocks.
BinWideDeferredFill ==
    /\ pc = "fill"
    /\ changed_blocks # <<>>
    /\ writes' =
         IF ~(has_output /\ ~options.diff_mask) THEN writes
         ELSE IF TotalBlocks > 256
         THEN {changed_blocks[i] : i \in DOMAIN changed_blocks} \cap 0..(TotalBlocks - 1)
         ELSE {b \in 0..(TotalBlocks - 1) :
                  \E i \in DOMAIN changed_blocks : changed_blocks[i] = AsU16(b)}
    /\ pc' = "hot"
    /\ UNCHANGED <<image1, image2, aliased, has_output, output, options, features,
                   cold_block, changed_blocks, hot_block, diff_count, result>>

\* The hot-pass loop, whole: the block processed for an entry is
\* (block_idx % blocks_x, block_idx / blocks_x).
BinWideHotPass ==
    /\ pc = "hot"
    /\ result' =
         [kind |-> "Ok",
          processed |->
             {(changed_blocks[i] \div BlocksX(image1.width, image1.height))
                  * BlocksX(image1.width, image1.height)
                + (changed_blocks[i] % BlocksX(image1.width, image1.height)) :
                     i \in DOMAIN changed_blocks},
          filled_all_but |-> writes,
          background |-> (has_output /\ ~options.diff_mask)]
    /\ hot_block' = Len(changed_blocks) + 1
    /\ pc' = "done"
    /\ UNCHANGED <<image1, image2, aliased, has_output, output, writes, options,
                   features, cold_block, changed_blocks, diff_count>>

NextWide ==
    \/ BinWideColdPass
    \/ BinWideReturnNoChanges
    \/ BinWideDeferredFill
    \/ BinWideHotPass

SpecWide == InitWide /\ [][NextWide]_vars

\* --------------------------------- diff() with varied output and options

OutSizes == {<<1, 1>>, <<MaxWidth - 4, MaxHeight>>}

\* What the output buffer holds before the call.
OutputFills == {Stale, Transparent, pack_color_pixel(DiffColor)}

\* A second opacity for the background, in percent.
StrongAlpha == 50

OutOptionSet ==
    [threshold : Thresholds, include_aa : BOOLEAN, alpha : {DefaultAlpha, StrongAlpha},
     aa_color : {AaColor}, diff_color : {DiffColor},
     diff_color_alt : {<<>>, <<DiffColorAlt>>}, diff_mask : BOOLEAN]

\* The inputs of Init on fewer images, with the output's previous contents
\* and the alpha option varied.
InitOut ==
    /\ \E size \in OutSizes :
         /\ image1 = Image(size[1], size[2], PatternData("edge", size[1], size[2]))
         /\ \/ /\ aliased = TRUE
               /\ image2 = image1
            \/ /\ aliased = FALSE
               /\ \E len \in 0..MaxRun, p \in 1..(size[1] * size[2]), c \in RunColours :
                    /\ len = 0 => (p = 1 /\ c = Gray)
                    /\ p + len - 1 <= size[1] * size[2]
                    /\ image2 = Image(size[1], size[2],
                                      Repaint(image1.data, p, len, c))
            \/ /\ aliased = FALSE
               /\ \E other \in OutSizes \ {size} :
                    image2 = Image(other[1], other[2],
                                   PatternData("edge", other[1], other[2]))
    /\ options \in OutOptionSet
    /\ has_output \in BOOLEAN
    /\ (~has_output) => (~options.diff_mask /\ options.diff_color_alt = <<>>
                         /\ options.alpha = DefaultAlpha)
    /\ \E fill \in OutputFills :
         /\ (~has_output) => fill = Stale
         /\ output = IF has_output THEN [k \in 1..Len(image1.data) |-> fill] ELSE <<>>
    /\ writes = IF has_output THEN [k \in 1..Len(image1.data) |-> <<>>] ELSE <<>>
    /\ features \in {"sse41", "scalar"}
    /\ pc = "entry"
    /\ cold_block = 0
    /\ changed_blocks = <<>>
    /\ hot_block = 1
    /\ diff_count = 0
    /\ result = NoResult

SpecOut == InitOut /\ [][Next]_vars

\* ------------------------------------------------------------------ claims

SameContent == SameSize /\ image1.data = image2.data

Returned == pc = "done"

Untouched ==
    /\ output = [k \in 1..Len(output) |-> Stale]
    /\ writes = [k \in 1..Len(writes) |-> <<>>]

\* C1: a diff of two inputs of identical content, aliased or separate copies,
\* returns Ok with diff_count 0 and identical true, under every option set.
C1_IdenticalContent ==
    (Returned /\ SameContent) =>
        /\ result.kind = "Ok"
        /\ result.diff_count = 0
        /\ result.identical

\* C1 witness: a separate, byte-equal copy went through the cold pass and
\* the call returned.
C1_Witness ==
    /\ Returned /\ SameContent /\ ~aliased
    /\ cold_block = TotalBlocks
    /\ result.kind = "Ok" /\ result.identical

\* C2: with inputs of different dimensions the call returns SizeMismatch
\* carrying both dimension pairs, and the output buffer has not been written,
\* not even by the diff_mask clear.
C2_SizeMismatch ==
    (Returned /\ ~SameSize) =>
        /\ result = [kind |-> "SizeMismatch",
                     img1_width |-> image1.width, img1_height |-> image1.height,
                     img2_width |-> image2.width, img2_height |-> image2.height]
        /\ Untouched

\* C2 witness: a size mismatch returned with an output image in diff_mask mode.
C2_Witness ==
    /\ Returned /\ ~SameSize
    /\ has_output /\ options.diff_mask
    /\ result.kind = "SizeMismatch"
    /\ result.img1_width # result.img2_width

\* C8: every Ok result has identical = (diff_count = 0).
C8_IdenticalFlag ==
    result.kind = "Ok" => (result.identical <=> (result.diff_count = 0))

\* C8 witness: the hot pass returned a count above zero, identical false.
C8_Witness ==
    /\ Returned /\ result.kind = "Ok"
    /\ changed_blocks # <<>>
    /\ result.diff_count > 0 /\ ~result.identical

\* Pixel positions (1-based) whose alpha-aware delta exceeds max_delta.
OverThreshold ==
    {k \in 1..Len(image1.data) :
        Abs(color_delta_f32(image1.data[k], image2.data[k]))
            > threshold_to_max_delta(options.threshold)}

\* The classifier's verdict at position k in the two role orders.
AaForward(k) ==
    is_antialiased(image1, image2, (k - 1) % image1.width, (k - 1) \div image1.width)

AaBackward(k) ==
    is_antialiased(image2, image1, (k - 1) % image1.width, (k - 1) \div image1.width)

ReturnedOk == Returned /\ result.kind = "Ok"

\* C3: with include_aa = true the diff count is the number of pixel positions
\* whose alpha-aware delta exceeds max_delta; the cold pass drops none.
C3_CountsEveryPixel ==
    (ReturnedOk /\ options.include_aa) =>
        result.diff_count = Cardinality(OverThreshold)

\* What the hot pass adds for position k (0 or 1): the pixel is handled
\* within the block of the grid that holds it.
HotContribution(k) ==
    LET x == (k - 1) % image1.width
        y == (k - 1) \div image1.width
        block_size == calculate_block_size(image1.width, image1.height)
    IN HotPixel(x, y,
                BlockBounds(x \div block_size, y \div block_size,
                            image1.width, image1.height),
                image1, image2, options, has_output, features).count

C5_Symmetric ==
    ReturnedOk =>
        LET swapped == DiffResultNew(
                diff_count_of(image2, image1, options, features, aliased),
                image1.width * image1.height)
        IN /\ result.diff_count = swapped.diff_count
           /\ result.identical = swapped.identical

\* C5 witness: a call whose classifier verdict differs between the two role
\* orders at an over-threshold pixel.
C5_Witness ==
    /\ ReturnedOk /\ ~options.include_aa /\ ~SameContent
    /\ \E k \in OverThreshold : AaBackward(k) /\ ~AaForward(k)

ThresholdGrid == {0, 1, 10, 100}

\* C6: for fixed images and include_aa the diff count does not increase with
\* the threshold.
C6_Monotone ==
    ReturnedOk =>
        \A t \in ThresholdGrid :
            LET other == diff_count_of(image1, image2,
                             [options EXCEPT !.threshold = t], features, aliased)
            IN /\ t >= options.threshold => other <= result.diff_count
               /\ t <= options.threshold => other >= result.diff_count

\* C6 witness: a call at threshold 0 whose count strictly drops at 0.1 and
\* again at 1.0.
C6_Witness ==
    /\ ReturnedOk /\ options.threshold = 0
    /\ result.diff_count
         > diff_count_of(image1, image2, [options EXCEPT !.threshold = 10],
                         features, aliased)
    /\ diff_count_of(image1, image2, [options EXCEPT !.threshold = 10],
                     features, aliased)
         > diff_count_of(image1, image2, [options EXCEPT !.threshold = 100],
                         features, aliased)

\* C7: the diff count never exceeds W * H, neither while the hot pass sums
\* nor in the result.
C7_Bounded ==
    /\ diff_count <= image1.width * image1.height
    /\ result.kind = "Ok" => result.diff_count <= image1.width * image1.height

\* C7 witness: two changed blocks were processed and every pixel counted.
C7_Witness ==
    /\ ReturnedOk
    /\ Len(changed_blocks) = 2
    /\ result.diff_count = image1.width * image1.height

\* C9: after a call on inputs of identical content with an output image,
\* every output pixel is the desaturated image1 pixel (diff_mask = false) or
\* fully transparent (diff_mask = true).
C9_IdenticalContentOutput ==
    (ReturnedOk /\ SameContent /\ has_output) =>
        \A k \in 1..Len(output) :
            output[k] = IF options.diff_mask THEN Transparent
                        ELSE pack_gray_pixel(
                                 compute_gray_pixel_f32(image1.data[k], options.alpha))

ClassifiedAa(k) ==
    /\ ~options.include_aa
    /\ k \in OverThreshold
    /\ AaForward(k) \/ AaBackward(k)

\* The marker pixels a call can paint.
MarkerPixels ==
    {pack_color_pixel(options.aa_color), pack_color_pixel(options.diff_color)}
        \cup {pack_color_pixel(options.diff_color_alt[i]) :
                  i \in 1..Len(options.diff_color_alt)}

\* C11: after a successful call with an output image and diff_mask = true,
\* every output pixel is fully transparent or a marker colour with alpha 255,
\* and every pixel that is neither a counted diff nor classified AA is
\* (0,0,0,0): no desaturated background is written.
C11_MaskOutput ==
    (ReturnedOk /\ has_output /\ options.diff_mask) =>
        \A k \in 1..Len(output) :
            /\ output[k] \in {Transparent} \cup MarkerPixels
            /\ output[k] # Transparent => output[k][4] = 255
            /\ (HotContribution(k) = 0 /\ ~ClassifiedAa(k)) => output[k] = Transparent

\* C11 witness: a diff_mask call that painted a marker, and left transparent
\* a pixel that differs below the threshold and one that is equal.
C11_Witness ==
    /\ ReturnedOk /\ has_output /\ options.diff_mask
    /\ \E k \in 1..Len(output) : output[k] \in MarkerPixels
    /\ \E k \in 1..Len(output) :
          /\ image1.data[k] # image2.data[k]
          /\ k \notin OverThreshold
          /\ output[k] = Transparent
    /\ \E k \in 1..Len(output) :
          image1.data[k] = image2.data[k] /\ output[k] = Transparent

\* Whether the buffer of img does not hold 4 * W * H bytes.
BadBuffer(img) == img.bytes # 4 * img.width * img.height

\* C12: a call on images of equal dimensions in which a buffer's byte length
\* is not 4 * W * H returns InvalidDataSize with the expected and the actual
\* length, and processes nothing.
C12_InvalidDataSize ==
    (Returned /\ SameSize /\ (BadBuffer(image1) \/ BadBuffer(image2))) =>
        /\ result.kind = "InvalidDataSize"
        /\ result.expected = 4 * image1.width * image1.height
        /\ result.actual \in {image1.bytes, image2.bytes}
        /\ Untouched

\* C13: the process exits 0 exactly when both images were loaded and diff
\* reported identical; it exits 1 when the loaded images differ, a difference
\* in size included (unless saving the output failed); it exits 2 only when
\* loading an input or saving the output failed.
C13_ExitCodes ==
    pc = "exit" =>
        /\ result.code = 0 <=>
             (result.loaded /\ result.diff.kind = "Ok" /\ result.diff.identical)
        /\ (result.loaded /\ result.saved # "failed"
              /\ (~SameSize \/ (result.diff.kind = "Ok" /\ ~result.diff.identical)))
             => result.code = 1
        /\ result.code = 2 => (~result.loaded \/ result.saved = "failed")

\* ceil(n / d) as the least multiple count that covers n.
CeilDiv(n, d) == CHOOSE q \in 0..n : q * d >= n /\ (q = 0 \/ (q - 1) * d < n)

\* C14: in every build the block size is a power of two between 8 and 128,
\* and the grid has ceil(W / B) x ceil(H / B) blocks.
C14_BlockSize ==
    result.kind = "grid" =>
        /\ result.block_size \in {2 ^ e : e \in 3..7}
        /\ result.blocks_x = CeilDiv(image1.width, result.block_size)
        /\ result.blocks_y = CeilDiv(image1.height, result.block_size)

\* Whether a pixel is opaque or fully transparent.
OpaqueOrClear(pixel) == pixel[4] \in {0, 255}

\* C15: a block the cold pass has scanned and that holds a pixel pair, each
\* pixel opaque or fully transparent, whose alpha-aware delta exceeds
\* max_delta, is recorded as changed (binary crate: changed_blocks holds
\* block indices).
C15_NoFalseClean ==
    \A b \in 0..(cold_block - 1) :
        (\E k \in OverThreshold :
            /\ InBlock(k - 1, BlockAt(b), image1.width)
            /\ OpaqueOrClear(image1.data[k])
            /\ OpaqueOrClear(image2.data[k]))
          => BinIsChanged(b)

\* C16: with an output image, diff_mask = true and include_aa = false, an
\* over-threshold pixel that the classifier accepts is not painted with
\* aa_color, stays fully transparent, and is not counted.
C16_AaMarkerBackgroundOnly ==
    (ReturnedOk /\ has_output /\ options.diff_mask /\ ~options.include_aa) =>
        \A k \in 1..Len(output) :
            ClassifiedAa(k) =>
                /\ output[k] # pack_color_pixel(options.aa_color)
                /\ output[k] = Transparent
                /\ HotContribution(k) = 0

\* Whether the binary crate's hot pass counted position k: its block was
\* recorded as changed and the pixel added 1.
BinCounted(k) ==
    LET x == (k - 1) % image1.width
        y == (k - 1) \div image1.width
        block_size == calculate_block_size(image1.width, image1.height)
        bx == x \div block_size
        by == y \div block_size
    IN /\ BinIsChanged(by * BlocksX(image1.width, image1.height) + bx)
       /\ BinHotPixel(x, y, BlockBounds(bx, by, image1.width, image1.height),
                      image1, image2, options, has_output, features).count = 1

\* C17: with an output image every counted pixel holds diff_color_alt (or
\* diff_color when it is None) with alpha 255 if its signed delta is below
\* zero, and diff_color otherwise, in both output modes and for both values
\* of include_aa.
C17_MarkerColour ==
    (ReturnedOk /\ has_output) =>
        \A k \in 1..Len(output) :
            BinCounted(k) =>
                output[k] = MarkerFor(color_delta_f32(image1.data[k], image2.data[k]),
                                      options)

\* The linear index of the grid block that holds position k.
BlockIndexOf(k) ==
    LET block_size == calculate_block_size(image1.width, image1.height)
    IN (((k - 1) \div image1.width) \div block_size)
           * BlocksX(image1.width, image1.height)
         + (((k - 1) % image1.width) \div block_size)

\* Whether the binary crate's cold pass finds block b changed.
BinDirty(b) ==
    block_has_perceptual_diff_bin(image1.data, image2.data, image1.width,
        BlockAt(b), threshold_to_max_delta(options.threshold), features)

\* C18: when a call on inputs of equal size has returned, every block of the
\* grid has been cold-scanned; the blocks recorded are exactly the dirty ones,
\* each once, and each has been hot-processed; with an output image every
\* pixel of a clean block was filled (background mode) and never touched by
\* the hot pass, every pixel of a dirty block was painted by the hot pass
\* once (background mode) and never filled.
C18_OnePathPerBlock ==
    (ReturnedOk /\ SameSize) =>
        /\ cold_block = TotalBlocks
        /\ \A b \in 0..(TotalBlocks - 1) :
             Cardinality({i \in 1..Len(changed_blocks) : changed_blocks[i] = b})
                 = IF BinDirty(b) THEN 1 ELSE 0
        /\ Len(changed_blocks) <= TotalBlocks
        /\ hot_block = Len(changed_blocks) + 1
        /\ has_output =>
             \A k \in 1..Len(writes) :
                 IF BinDirty(BlockIndexOf(k))
                 THEN writes[k] = IF options.diff_mask
                                  THEN (IF output[k] = Transparent THEN <<"clear">>
                                        ELSE <<"clear", "hot">>)
                                  ELSE <<"hot">>
                 ELSE writes[k] = IF options.diff_mask THEN <<"clear">> ELSE <<"fill">>

\* The raster position of a block given by its bounds.
RasterIndex(blk) ==
    LET block_size == calculate_block_size(image1.width, image1.height)
    IN (blk[2] \div block_size) * BlocksX(image1.width, image1.height)
         + (blk[1] \div block_size)

\* Whether a sequence of (x, y) visits is row by row, left to right.
RowByRow(pixels) ==
    \A i \in 1..(Len(pixels) - 1) :
        \/ pixels[i + 1][2] = pixels[i][2] /\ pixels[i + 1][1] = pixels[i][1] + 1
        \/ pixels[i + 1][2] = pixels[i][2] + 1 /\ pixels[i + 1][1] < pixels[i][1] + 1

\* C19: every cold-pass step scans the block next in raster order (the block
\* it records or fills is the one at raster position cold_block) and happens
\* before any hot-pass step; every hot-pass step comes after the whole cold
\* pass, takes the next recorded block, which lies later in raster order than
\* the one before it, and visits its pixels row by row, left to right.
C19_RasterOrder ==
    [][/\ cold_block' # cold_block =>
            /\ pc = "cold" /\ cold_block' = cold_block + 1
            /\ hot_block = 1 /\ hot_block' = 1
            /\ \/ changed_blocks' = changed_blocks
               \/ /\ Len(changed_blocks') = Len(changed_blocks) + 1
                  /\ RasterIndex(changed_blocks'[Len(changed_blocks')]) = cold_block
            /\ \A k \in 1..Len(writes) :
                   writes'[k] # writes[k] => BlockIndexOf(k) = cold_block
       /\ hot_block' # hot_block =>
            /\ cold_block = TotalBlocks /\ cold_block' = cold_block
            /\ changed_blocks' = changed_blocks
            /\ hot_block' = hot_block + 1
            /\ hot_block > 1 =>
                 RasterIndex(changed_blocks[hot_block])
                     > RasterIndex(changed_blocks[hot_block - 1])
            /\ RowByRow(BlockPixels(changed_blocks[hot_block]))
            /\ \A k \in 1..Len(writes) :
                   writes'[k] # writes[k] =>
                       BlockIndexOf(k) = RasterIndex(changed_blocks[hot_block])
      ]_vars

\* C19 witness: the cold pass recorded two blocks and the hot pass has
\* processed both, in a call with an output image.
C19_Witness ==
    /\ pc = "hot" /\ has_output
    /\ cold_block = TotalBlocks
    /\ Len(changed_blocks) = 2 /\ hot_block = 3

\* Bounds of the grid block that holds position k.
BlockOf(k) ==
    LET block_size == calculate_block_size(image1.width, image1.height)
    IN BlockBounds(((k - 1) % image1.width) \div block_size,
                   ((k - 1) \div image1.width) \div block_size,
                   image1.width, image1.height)

\* The output pixel at position k as the raster-order schedule leaves it: a
\* function of the inputs, the options and the CPU features alone.
RasterOutput(k) ==
    LET blk == BlockOf(k)
        paint == HotPaint(k - 1, blk, image1, image2, options, has_output, features)
    IN IF block_has_perceptual_diff(image1.data, image2.data, image1.width, blk,
              threshold_to_max_delta(options.threshold), features)
       THEN (IF paint = <<>> THEN Transparent ELSE paint[1])
       ELSE IF options.diff_mask THEN Transparent
       ELSE FillGrayAt(image1.data, (k - 1) % image1.width, blk, k - 1,
                       options.alpha, features)

\* C20: whatever order the changed blocks are processed in, the total diff
\* count and the final output buffer are those of the raster-order schedule.
C20_ScheduleIndependent ==
    (ReturnedOk /\ ~aliased) =>
        /\ result.diff_count = diff_count_of(image1, image2, options, features, aliased)
        /\ has_output => \A k \in 1..Len(output) : output[k] = RasterOutput(k)

\* C20 witness: two changed blocks were processed against raster order, with
\* an output image, and pixels were counted.
C20_Witness ==
    /\ ReturnedOk /\ ~aliased /\ has_output
    /\ Len(changed_blocks) = 2
    /\ RasterIndex(changed_blocks[1]) > RasterIndex(changed_blocks[2])
    /\ result.diff_count > 1

\* The pixel indices y * width + x of block blk, from the block's loops.
BlockIndexSet(blk) ==
    LET pixels == BlockPixels(blk)
    IN {pixels[k][2] * image1.width + pixels[k][1] : k \in DOMAIN pixels}

\* The segments of row y of block blk, as sets of pixel indices.
RowSegments(blk, y) ==
    {SegmentIndices(x, y, blk, image1.width, features) : x \in blk[1]..(blk[3] - 1)}

\* C21: the blocks of the grid are non-empty, lie inside the image, are
\* pairwise disjoint and cover the W x H pixels; inside each block row the
\* 8-lane, 4-lane and scalar segments are disjoint and cover the row; the
\* pixels the block loops visit number W * H.
C21_Partition ==
    SameSize =>
        LET width == image1.width
            height == image1.height
            grid == [b \in 0..(TotalBlocks - 1) |-> BlockAt(b)]
            sets == [b \in DOMAIN grid |-> BlockIndexSet(grid[b])]
        IN /\ \A b \in DOMAIN grid :
                 sets[b] # {} /\ sets[b] \subseteq 0..(width * height - 1)
           /\ \A k \in 0..(width * height - 1) :
                 Cardinality({b \in DOMAIN grid : k \in sets[b]}) = 1
           /\ Cardinality(UNION {{<<b, k>> : k \in DOMAIN BlockPixels(grid[b])} :
                                 b \in DOMAIN grid}) = width * height
           /\ \A b \in DOMAIN grid : \A y \in grid[b][2]..(grid[b][4] - 1) :
                 LET segments == RowSegments(grid[b], y)
                 IN /\ UNION segments = {y * width + x : x \in grid[b][1]..(grid[b][3] - 1)}
                    /\ \A s1, s2 \in segments : s1 = s2 \/ s1 \cap s2 = {}

\* C21 witness: an image whose width is a multiple of neither the block size
\* nor a lane width was diffed to the end: two blocks, an 8-pixel lane in the
\* first and a scalar pixel in the second, both processed by the hot pass.
C21_Witness ==
    /\ ReturnedOk /\ ~aliased /\ has_output
    /\ image1.width = MaxWidth /\ features = "avx2"
    /\ TotalBlocks = 2 /\ Len(changed_blocks) = 2
    /\ SegmentKind(0, BlockAt(0), features) = "lane8"
    /\ SegmentKind(BlockMin, BlockAt(1), features) = "scalar"
    /\ MaxWidth % calculate_block_size(image1.width, image1.height) # 0

\* The two images are 1x1.
SinglePixel ==
    /\ image1.width = 1 /\ image1.height = 1
    /\ image2.width = 1 /\ image2.height = 1

\* C22: on a 1x1 image the classifier answers false for the only pixel in
\* both role orders, and the pixel is counted exactly when its delta exceeds
\* max_delta, with include_aa = false as with include_aa = true.
C22_SinglePixel ==
    (ReturnedOk /\ SinglePixel) =>
        /\ ~AaForward(1) /\ ~AaBackward(1)
        /\ result.diff_count = Cardinality(OverThreshold)
        /\ result.diff_count =
             diff_count_of(image1, image2, [options EXCEPT !.include_aa = TRUE],
                           features, aliased)

\* C22 witness: a 1x1 diff with include_aa = false returned with its pixel
\* counted.
C22_Witness ==
    /\ ReturnedOk /\ SinglePixel /\ ~aliased
    /\ ~options.include_aa
    /\ OverThreshold = {1}
    /\ result.diff_count = 1

\* Every pixel of the image has the colour of the first.
Solid(image) == \A k \in 1..Len(image.data) : image.data[k] = image.data[1]

\* C23: when each input image is one solid colour the classifier answers
\* false for every pixel in both role orders, and diff_count is W * H when the
\* two colours differ by more than the threshold and 0 otherwise, with
\* include_aa = false as with include_aa = true.
C23_SolidColours ==
    (ReturnedOk /\ Solid(image1) /\ Solid(image2)) =>
        /\ \A k \in 1..Len(image1.data) : ~AaForward(k) /\ ~AaBackward(k)
        /\ result.diff_count =
             IF 1 \in OverThreshold THEN image1.width * image1.height ELSE 0
        /\ \A include_aa \in BOOLEAN :
              result.diff_count =
                diff_count_of(image1, image2, [options EXCEPT !.include_aa = include_aa],
                              features, aliased)

\* C23 witness: two solid images of more than one block that differ by more
\* than the threshold were diffed with include_aa = false, and every pixel was
\* counted.
C23_Witness ==
    /\ ReturnedOk /\ ~aliased /\ Solid(image1) /\ Solid(image2)
    /\ ~options.include_aa
    /\ TotalBlocks = 2
    /\ result.diff_count = image1.width * image1.height

\* (x, y) lies on the image boundary.
OnBoundary(x, y, width, height) ==
    x = 0 \/ x = width - 1 \/ y = 0 \/ y = height - 1

\* The in-bounds neighbours of (x, y), as a set.
Neighbours(x, y, width, height) ==
    {c \in (0..(width - 1)) \X (0..(height - 1)) :
        /\ c # <<x, y>>
        /\ Abs(c[1] - x) <= 1 /\ Abs(c[2] - y) <= 1}

\* What C24 says of one call is_antialiased(first, second, x, y).
ClassifierRules(first, second, x, y) ==
    LET width == first.width
        height == first.height
        pos == y * width + x
        centre == At(first.data, pos)
        around == Neighbours(x, y, width, height)
        equal == {c \in around : At(first.data, c[2] * width + c[1]) = centre}
        deltas == {color_delta_y(centre, At(first.data, c[2] * width + c[1]), pos) :
                      c \in around \ equal}
        seed == IF OnBoundary(x, y, width, height) THEN 1 ELSE 0
    IN /\ seed + Cardinality(equal) > 2 => ~is_antialiased(first, second, x, y)
       /\ ((\A d \in deltas : d >= 0) \/ (\A d \in deltas : d <= 0))
             => ~is_antialiased(first, second, x, y)

\* The two images in the role order of the call recorded in `result`.
CallImages ==
    IF result.kind = "is_antialiased_swapped" THEN <<image2, image1>>
    ELSE <<image1, image2>>

\* The call recorded in `result` is a call of is_antialiased.
ClassifierCall ==
    pc = "done" /\ result.kind \in {"is_antialiased", "is_antialiased_swapped"}

\* C24, first two sentences: more than 2 equal siblings, the boundary counted
\* as one, or no strictly darker or no strictly brighter neighbour, make
\* is_antialiased answer false.
C24_ClassifierRules ==
    (ClassifierCall /\ ~result.fault) =>
        /\ ClassifierRules(CallImages[1], CallImages[2], result.x, result.y)
        /\ result.value = is_antialiased(CallImages[1], CallImages[2], result.x, result.y)

\* C24: is_antialiased answers false on more than 2 equal siblings (boundary
\* pixels start the count at 1) and when no neighbour is strictly darker or
\* none strictly brighter, and a call on a corner or edge pixel reads no index
\* outside the image.
C24_Classifier ==
    ClassifierCall =>
        /\ ~result.fault =>
              ClassifierRules(CallImages[1], CallImages[2], result.x, result.y)
        /\ OnBoundary(result.x, result.y, image1.width, image1.height) =>
              /\ ~result.fault
              /\ result.reads \subseteq 0..(image1.width * image1.height - 1)

\* C28: every pixel index a call of has_many_siblings reads lies in
\* [0, W * H), the 4-wide loads of the rows above and below an interior centre
\* included, and the answer is that of the scalar helper: more than 2 of the
\* in-bounds neighbours equal the centre, a boundary pixel counting one more.
C28_SiblingReads ==
    (pc = "done" /\ result.kind = "has_many_siblings") =>
        /\ ~result.fault
        /\ result.reads \subseteq 0..(image1.width * image1.height - 1)
        /\ result.value =
             has_many_siblings_scalar(image1.data, result.x, result.y,
                 image1.width, image1.height,
                 IF OnBoundary(result.x, result.y, image1.width, image1.height)
                 THEN 1 ELSE 0)

\* C28 without the last interior pixel: the reads of every other call stay
\* inside the buffer and the answer is the scalar helper's.
C28_ExceptLastInterior ==
    (/\ pc = "done" /\ result.kind = "has_many_siblings"
     /\ ~(result.x = image1.width - 2 /\ result.y = image1.height - 2)) =>
        /\ ~result.fault
        /\ result.reads \subseteq 0..(image1.width * image1.height - 1)
        /\ result.value =
             has_many_siblings_scalar(image1.data, result.x, result.y,
                 image1.width, image1.height,
                 IF OnBoundary(result.x, result.y, image1.width, image1.height)
                 THEN 1 ELSE 0)

\* C25: in background mode every desaturated pixel of the output, whether a
\* SIMD lane or the scalar remainder wrote it, in the cold-pass fill or in the
\* hot pass, is the scalar painter's value: the gray clamped to [0, 255] and
\* truncated, replicated in R, G, B, with alpha 255.
C25_PainterBitIdentical ==
    (ReturnedOk /\ ~aliased /\ has_output /\ ~options.diff_mask) =>
        \A k \in 1..Len(output) :
            output[k] \notin MarkerPixels =>
                output[k] = pack_gray_pixel(
                                compute_gray_pixel_f32(image1.data[k], options.alpha))

\* C25 on a CPU without vector units: every desaturated pixel is the scalar
\* painter's value.
C25_ScalarOnly ==
    (ReturnedOk /\ ~aliased /\ has_output /\ ~options.diff_mask /\ features = "scalar") =>
        \A k \in 1..Len(output) :
            output[k] \notin MarkerPixels =>
                output[k] = pack_gray_pixel(
                                compute_gray_pixel_f32(image1.data[k], options.alpha))

\* C26: on every backend and for every slice length, compare_pixels(a, b)
\* answers true exactly when a[i] # b[i] for some index i.
C26_ComparePixels ==
    (pc = "done" /\ result.kind = "compare_pixels") =>
        result.value = (\E i \in 1..Len(image1.data) : image1.data[i] # image2.data[i])

\* C26 on the backends that walk the whole slice, and on the x86_64 vector
\* backends when the slices fit in the one vector compared.
C26_WholeSlice ==
    (/\ pc = "done" /\ result.kind = "compare_pixels"
     /\ \/ features \in {"scalar", "neon"}
        \/ Len(image1.data) < Lane4
        \/ features = "sse41" /\ Len(image1.data) = Lane4
        \/ features = "avx2" /\ Len(image1.data) \in {Lane4, Lane8}
        \/ features = "avx512" /\ Len(image1.data) \in {Lane4, Lane8, 2 * Lane8}) =>
        result.value = (\E i \in 1..Len(image1.data) : image1.data[i] # image2.data[i])

\* C27: Image::new(W, H) and Image::new_uninit(W, H) return a buffer of
\* exactly 4 * W * H bytes (W * H pixels) for every W and H: no image has a
\* buffer shorter than its dimensions imply.
C27_BufferLength ==
    pc = "done" =>
        /\ result.kind \in {"Image::new", "Image::new_uninit"}
        /\ result.pixels = result.width * result.height

\* C27 for images below 2^30 pixels: the buffer has W * H pixels.
C27_BelowWrap ==
    (pc = "done" /\ image1.width * image1.height < WordWrap) =>
        /\ result.kind \in {"Image::new", "Image::new_uninit"}
        /\ result.pixels = result.width * result.height

\* C29: with changed blocks recorded as 16-bit indices, the blocks the hot
\* pass processes, and the blocks the deferred gray fill skips, are exactly
\* the blocks the cold pass flagged, for every grid size.
C29_BlockIndex ==
    (pc = "done" /\ image2.dirty # {}) =>
        /\ result.processed = image2.dirty
        /\ result.background => result.filled_all_but = image2.dirty

\* C29 on grids of at most 2^16 blocks.
C29_SmallGrid ==
    (pc = "done" /\ image2.dirty # {} /\ TotalBlocks <= 2 ^ 16) =>
        /\ result.processed = image2.dirty
        /\ result.background => result.filled_all_but = image2.dirty

\* The options of the call with everything but threshold and include_aa set
\* to fixed values.
MetricOptions ==
    [options EXCEPT !.alpha = DefaultAlpha, !.diff_mask = FALSE,
                    !.diff_color_alt = <<>>]

\* The result of the same call made without an output image and with the
\* options of MetricOptions.
ResultWithoutOutput ==
    DiffResultNew(diff_count_of(image1, image2, MetricOptions, features, aliased),
                  image1.width * image1.height)

\* C30: the returned diff_count, diff_percentage and identical are those of
\* the call without an output image and with fixed alpha, mode and marker
\* options, whatever the output argument, its mode, its previous contents and
\* those options are; and no step changes the two input images.
C30_OutputIndependent ==
    /\ [](ReturnedOk => result = ResultWithoutOutput)
    /\ [][image1' = image1 /\ image2' = image2]_vars

\* C30 witness: a call with an output image in diff-mask mode, the alternate
\* marker colour set and a non-default alpha returned with pixels counted.
C30_Witness ==
    /\ ReturnedOk /\ ~aliased /\ has_output
    /\ options.diff_mask /\ options.diff_color_alt # <<>>
    /\ options.alpha = StrongAlpha
    /\ result.diff_count > 0
    /\ result = ResultWithoutOutput

====
